---- MODULE Spec2Model ----
(***************************************************************************)
(* Driver scoring and schedule-optimisation engine.                        *)
(*                                                                         *)
(*   src/agents/driver_prioritization_agent.py  DriverPrioritizationAgent  *)
(*   src/backend/agents/digital_twin_agent.py   DigitalTwinAgent           *)
(*                                                                         *)
(* Python floats are modelled as exact rationals [num, den] (den > 0, in   *)
(* lowest terms) extended with the IEEE special values NaN, +Inf, -Inf.    *)
(* The transcendental np.log is computed in binary fixed point.            *)
(***************************************************************************)
EXTENDS Integers, Sequences, FiniteSets, TLC

VARIABLES
    drivers_df,      \* DriverPrioritizationAgent.drivers_df after _enrich_driver_data
    config,          \* DriverPrioritizationAgent.config
    weights,         \* DriverPrioritizationAgent.weights
    input,           \* arguments of a direct call of one of the scoring functions
    call,            \* the last completed call: operation, arguments, outcome
    rides_data,      \* DigitalTwinAgent.rides_data after _preprocess_data
    earnings_data,   \* DigitalTwinAgent.earnings_data
    incentives_data, \* DigitalTwinAgent.incentives_data
    surge_data,      \* DigitalTwinAgent.surge_data
    profile,         \* the DriverProfile object of the last learn call: <<>> or <<p>>
    simulations      \* results of simulate_optimal_week on that object so far

scorerVars == <<drivers_df, config, weights, input>>
twinVars == <<rides_data, earnings_data, incentives_data, surge_data, profile, simulations>>
vars == <<drivers_df, config, weights, input, call, rides_data, earnings_data,
          incentives_data, surge_data, profile, simulations>>

-----------------------------------------------------------------------------
(* Bounds of the model.                                                    *)

MaxDrivers == 3      \* rows of the driver table
MaxTop == 4          \* largest n passed to get_top_drivers
MaxDenseTrips == 600 \* trip counts 0..MaxDenseTrips are all enumerated
MaxRides == 2        \* rows of rides_data
MaxRepeat == 2       \* calls of simulate_optimal_week on one profile object
MaxDays == 6         \* calendar days of a longer history
MaxDayHours == 20    \* hours of the longest day of a schedule passed to _project_earnings

-----------------------------------------------------------------------------
(* Rational arithmetic.                                                    *)

Abs(x) == IF x < 0 THEN -x ELSE x

RECURSIVE GCD(_, _)
GCD(a, b) == IF b = 0 THEN a ELSE GCD(b, a % b)

\* the rational n/d in lowest terms with a positive denominator (d # 0)
R(n, d) ==
    LET g == GCD(Abs(n), Abs(d))
        s == IF d < 0 THEN -1 ELSE 1
    IN  [num |-> s * (n \div g), den |-> s * (d \div g)]

Int2R(n) == [num |-> n, den |-> 1]

RAdd(x, y) ==
    LET g == GCD(x.den, y.den)
        l == (x.den \div g) * y.den
    IN  R(x.num * (l \div x.den) + y.num * (l \div y.den), l)

RNeg(x) == [num |-> -x.num, den |-> x.den]

RSub(x, y) == RAdd(x, RNeg(y))

\* cross-cancelled so that no intermediate exceeds the result
RMul(x, y) ==
    LET g1 == GCD(Abs(x.num), y.den)
        g2 == GCD(Abs(y.num), x.den)
    IN  R((x.num \div g1) * (y.num \div g2), (x.den \div g2) * (y.den \div g1))

\* y # 0
RDiv(x, y) == RMul(x, R(y.den, y.num))

\* a/b < c/d for b, d > 0, by continued-fraction expansion (no products)
RECURSIVE FracLess(_, _, _, _)
FracLess(a, b, c, d) ==
    LET q1 == a \div b
        q2 == c \div d
        r1 == a % b
        r2 == c % d
    IN  IF q1 # q2 THEN q1 < q2
        ELSE IF r2 = 0 THEN FALSE
        ELSE IF r1 = 0 THEN TRUE
        ELSE FracLess(d, r2, b, r1)

RLt(x, y) == FracLess(x.num, x.den, y.num, y.den)
RLe(x, y) == ~RLt(y, x)

RZero == Int2R(0)
ROne == Int2R(1)

-----------------------------------------------------------------------------
(* IEEE special values: den = 0 marks them, num is the sign (0 for NaN).   *)

NaN == [num |-> 0, den |-> 0]
PosInf == [num |-> 1, den |-> 0]
NegInf == [num |-> -1, den |-> 0]

IsNaN(x) == x = NaN
IsFinite(x) == x.den # 0
Sign(x) == IF x.num > 0 THEN 1 ELSE IF x.num < 0 THEN -1 ELSE 0

FNeg(x) == [num |-> -x.num, den |-> x.den]

FAdd(x, y) ==
    IF IsNaN(x) \/ IsNaN(y) THEN NaN
    ELSE IF ~IsFinite(x) THEN (IF ~IsFinite(y) /\ y # x THEN NaN ELSE x)
    ELSE IF ~IsFinite(y) THEN y
    ELSE RAdd(x, y)

FSub(x, y) == FAdd(x, FNeg(y))

FMul(x, y) ==
    IF IsNaN(x) \/ IsNaN(y) THEN NaN
    ELSE IF ~IsFinite(x) \/ ~IsFinite(y)
         THEN [num |-> Sign(x) * Sign(y), den |-> 0]
         ELSE RMul(x, y)

\* numpy division: x / 0 is an infinity or NaN, never an exception
FDiv(x, y) ==
    IF IsNaN(x) \/ IsNaN(y) THEN NaN
    ELSE IF ~IsFinite(y) THEN (IF IsFinite(x) THEN RZero ELSE NaN)
    ELSE IF y.num = 0 THEN [num |-> Sign(x), den |-> 0]
    ELSE IF ~IsFinite(x) THEN [num |-> Sign(x) * Sign(y), den |-> 0]
    ELSE RDiv(x, y)

\* every comparison with NaN is false
FLt(x, y) ==
    IF IsNaN(x) \/ IsNaN(y) \/ x = y THEN FALSE
    ELSE IF x = NegInf \/ y = PosInf THEN TRUE
    ELSE IF x = PosInf \/ y = NegInf THEN FALSE
    ELSE RLt(x, y)

FLe(x, y) == ~IsNaN(x) /\ ~IsNaN(y) /\ ~FLt(y, x)

\* Python min(x, y) and max(x, y): the first argument wins unless the
\* second compares strictly smaller (larger)
PyMin(x, y) == IF FLt(y, x) THEN y ELSE x
PyMax(x, y) == IF FLt(x, y) THEN y ELSE x

RECURSIVE FSum(_)
FSum(s) == IF s = <<>> THEN RZero ELSE FAdd(FSum(SubSeq(s, 1, Len(s) - 1)), s[Len(s)])

RECURSIVE SelectSeq2(_, _)
SelectSeq2(s, keep) ==
    IF s = <<>> THEN <<>>
    ELSE (IF keep[1] THEN <<Head(s)>> ELSE <<>>) \o SelectSeq2(Tail(s), Tail(keep))

\* Series.mean(): NaN entries are skipped, an empty series gives NaN
SeriesMean(s) ==
    LET v == SelectSeq(s, LAMBDA x : ~IsNaN(x))
    IN  IF v = <<>> THEN NaN ELSE FDiv(FSum(v), Int2R(Len(v)))

\* largest k in lo..hi with (k / 100)^2 <= x, for a rational x >= 0
RECURSIVE SqrtSearch(_, _, _)
SqrtSearch(x, lo, hi) ==
    IF lo = hi THEN lo
    ELSE LET mid == (lo + hi + 1) \div 2
         IN  IF FracLess(x.num, x.den, mid * mid, 10000)
             THEN SqrtSearch(x, lo, mid - 1)
             ELSE SqrtSearch(x, mid, hi)

\* np.sqrt to two decimals
Sqrt(x) ==
    IF IsNaN(x) \/ Sign(x) < 0 THEN NaN
    ELSE IF ~IsFinite(x) THEN PosInf
    ELSE R(SqrtSearch(x, 0, 100 * (1 + x.num \div x.den)), 100)

\* Series.std() (ddof = 1) of a series of finite values
SeriesStd(s) ==
    LET n == Len(s)
        sum == FSum(s)
        sq == FSum([i \in 1..n |-> FMul(s[i], s[i])])
    IN  IF n < 2 THEN NaN
        ELSE Sqrt(FDiv(FSub(FMul(Int2R(n), sq), FMul(sum, sum)), Int2R(n * (n - 1))))

\* Series.corr (Pearson) over the rows where both values are present:
\* sign and square of the coefficient; undefined for fewer than two rows,
\* a non-finite value or a constant series
PearsonParts(xs, ys) ==
    LET keep == [i \in 1..Len(xs) |-> ~IsNaN(xs[i]) /\ ~IsNaN(ys[i])]
        x == SelectSeq2(xs, keep)
        y == SelectSeq2(ys, keep)
        n == Len(x)
        finite == \A i \in 1..n : IsFinite(x[i]) /\ IsFinite(y[i])
        sx == FSum(x)
        sy == FSum(y)
        sxx == FSub(FMul(Int2R(n), FSum([i \in 1..n |-> FMul(x[i], x[i])])), FMul(sx, sx))
        syy == FSub(FMul(Int2R(n), FSum([i \in 1..n |-> FMul(y[i], y[i])])), FMul(sy, sy))
        sxy == FSub(FMul(Int2R(n), FSum([i \in 1..n |-> FMul(x[i], y[i])])), FMul(sx, sy))
    IN  IF n < 2 \/ ~finite THEN [defined |-> FALSE, sign |-> 0, square |-> RZero]
        ELSE IF sxx = RZero \/ syy = RZero THEN [defined |-> FALSE, sign |-> 0, square |-> RZero]
        ELSE [defined |-> TRUE, sign |-> Sign(sxy),
              square |-> FDiv(FMul(sxy, sxy), FMul(sxx, syy))]

Pearson(xs, ys) ==
    LET c == PearsonParts(xs, ys)
    IN  IF ~c.defined THEN NaN
        ELSE FMul(Int2R(c.sign), PyMin(Sqrt(c.square), ROne))

\* correlation < bound for a bound in (-1, 0): exact, and false for NaN
PearsonBelow(xs, ys, bound) ==
    LET c == PearsonParts(xs, ys)
    IN  c.defined /\ c.sign < 0 /\ FLt(FMul(bound, bound), c.square)

-----------------------------------------------------------------------------
(* np.log in binary fixed point: Log2Fix(x) = floor-ish(2^LogBits * log2 x) *)

LogBits == 14
LogOne == 16384      \* 2^LogBits

RECURSIVE ILog2(_)
ILog2(x) == IF x < 2 THEN 0 ELSE 1 + ILog2(x \div 2)

RECURSIVE Pow2(_)
Pow2(k) == IF k = 0 THEN 1 ELSE 2 * Pow2(k - 1)

\* y is the mantissa in [LogOne, 2*LogOne); acc the bits produced so far
RECURSIVE LogFrac(_, _, _)
LogFrac(y, acc, bits) ==
    IF bits = 0 THEN acc
    ELSE LET y2 == (y * y) \div LogOne
         IN  IF y2 >= 2 * LogOne
             THEN LogFrac(y2 \div 2, 2 * acc + 1, bits - 1)
             ELSE LogFrac(y2, 2 * acc, bits - 1)

\* x >= 1
Log2Fix(x) ==
    LET k == ILog2(x)
        y == IF k <= LogBits THEN x * Pow2(LogBits - k) ELSE x \div Pow2(k - LogBits)
    IN  LogFrac(y, k, LogBits)

-----------------------------------------------------------------------------
(* DriverPrioritizationAgent: configuration.                               *)

DefaultConfig ==
    [platform_avg_rating    |-> R(47, 10),
     equivalent_prior_trips |-> 20,
     n95_trips              |-> 500,
     max_incidents          |-> 10,
     activeness_window_days |-> 30]

DefaultWeights ==
    [rating           |-> R(35, 100),
     acceptance       |-> R(15, 100),
     cancellation     |-> R(15, 100),
     activeness       |-> R(15, 100),
     safety           |-> R(10, 100),
     experience_boost |-> R(10, 100)]

\* outcome of a call: exc = "none" and the returned value, or the exception
Return(v) == [exc |-> "none", value |-> v]
Raise(e) == [exc |-> e, value |-> <<>>]

-----------------------------------------------------------------------------
(* DriverPrioritizationAgent: scoring functions.                           *)

\* variant: the prior enters with weight 1 instead of m
calculate_experience_aware_rating_unweighted_prior(driver_rating, completed_trips) ==
    LET a == config.platform_avg_rating
        m == config.equivalent_prior_trips
        n == completed_trips
        r == driver_rating
    IN  IF m + n = 0 THEN Raise("ZeroDivisionError")
        ELSE Return(RDiv(RAdd(a, RMul(Int2R(n), r)), Int2R(m + n)))

\* variant: the sum is divided by n alone
calculate_experience_aware_rating_divided_by_n(driver_rating, completed_trips) ==
    LET a == config.platform_avg_rating
        m == config.equivalent_prior_trips
        n == completed_trips
        r == driver_rating
    IN  IF n = 0 THEN Raise("ZeroDivisionError")
        ELSE Return(RDiv(RAdd(RMul(Int2R(m), a), RMul(Int2R(n), r)), Int2R(n)))

\* ear = (m * a + n * r) / (m + n); Python raises when m + n = 0
calculate_experience_aware_rating(driver_rating, completed_trips) ==
    LET a == config.platform_avg_rating
        m == config.equivalent_prior_trips
        n == completed_trips
        r == driver_rating
    IN  IF m + n = 0 THEN Raise("ZeroDivisionError")
        ELSE Return(RDiv(RAdd(RMul(Int2R(m), a), RMul(Int2R(n), r)), Int2R(m + n)))

\* np.log(1 + n) / np.log(1 + n95) to three decimals
LogRatio(n, n95) == R((Log2Fix(1 + n) * 1000) \div Log2Fix(1 + n95), 1000)

\* variant: no cap at 1.0
calculate_experience_boost_uncapped(completed_trips) ==
    LET n == completed_trips
        n95 == config.n95_trips
    IN  IF n <= 0 THEN RZero
        ELSE LogRatio(n, n95)

calculate_experience_boost(completed_trips) ==
    LET n == completed_trips
        n95 == config.n95_trips
    IN  IF n <= 0 THEN RZero
        ELSE PyMin(LogRatio(n, n95), ROne)

calculate_reliability_score(acceptance_rate, cancellation_rate) ==
    [A |-> acceptance_rate, C |-> RSub(ROne, cancellation_rate)]

\* variant: the rating is divided by 4 without moving its origin to 0
calculate_overall_priority_score_unshifted(ear, experience_boost, acceptance_rate, cancellation_reliability, activeness_score, safety_score) ==
    LET ear_normalized == RDiv(ear, Int2R(4))
    IN  RAdd(RAdd(RAdd(RAdd(RAdd(
            RMul(weights.rating, ear_normalized),
            RMul(weights.acceptance, acceptance_rate)),
            RMul(weights.cancellation, cancellation_reliability)),
            RMul(weights.activeness, activeness_score)),
            RMul(weights.safety, safety_score)),
            RMul(weights.experience_boost, experience_boost))

\* variant: the safety term is subtracted
calculate_overall_priority_score_safety_subtracted(ear, experience_boost, acceptance_rate, cancellation_reliability, activeness_score, safety_score) ==
    LET ear_normalized == RDiv(RSub(ear, ROne), Int2R(4))
    IN  RSub(RAdd(RAdd(RAdd(RAdd(
            RMul(weights.rating, ear_normalized),
            RMul(weights.acceptance, acceptance_rate)),
            RMul(weights.cancellation, cancellation_reliability)),
            RMul(weights.activeness, activeness_score)),
            RMul(weights.experience_boost, experience_boost)),
            RMul(weights.safety, safety_score))

calculate_overall_priority_score(ear, experience_boost, acceptance_rate, cancellation_reliability, activeness_score, safety_score) ==
    LET ear_normalized == RDiv(RSub(ear, ROne), Int2R(4))
    IN  RAdd(RAdd(RAdd(RAdd(RAdd(
            RMul(weights.rating, ear_normalized),
            RMul(weights.acceptance, acceptance_rate)),
            RMul(weights.cancellation, cancellation_reliability)),
            RMul(weights.activeness, activeness_score)),
            RMul(weights.safety, safety_score)),
            RMul(weights.experience_boost, experience_boost))

\* body of the loop of prioritize_all_drivers for one row (rank still 0)
ScoreDriver(driver) ==
    LET ear == calculate_experience_aware_rating(driver.rating, driver.completed_trips).value
        exp_boost == calculate_experience_boost(driver.completed_trips)
        rel == calculate_reliability_score(driver.acceptance_rate, driver.cancellation_rate)
    IN  [earner_id                  |-> driver.earner_id,
         raw_rating                 |-> driver.rating,
         experience_adjusted_rating |-> ear,
         experience_boost           |-> exp_boost,
         acceptance_rate            |-> rel.A,
         cancellation_reliability   |-> rel.C,
         recent_activeness          |-> driver.activeness_score,
         safety_score               |-> driver.safety_score,
         overall_priority_score     |->
             calculate_overall_priority_score(ear, exp_boost, rel.A, rel.C,
                                              driver.activeness_score,
                                              driver.safety_score),
         rank                       |-> 0]

\* list.sort(key = overall_priority_score, reverse = True): x goes behind
\* every element whose key is >= its own, so equal keys keep their order
\* variant: x goes in front of the elements whose key equals its own
RECURSIVE InsertDescendingUnstable(_, _)
InsertDescendingUnstable(sorted, x) ==
    IF sorted = <<>> THEN <<x>>
    ELSE IF RLe(Head(sorted).overall_priority_score, x.overall_priority_score)
         THEN <<x>> \o sorted
         ELSE <<Head(sorted)>> \o InsertDescendingUnstable(Tail(sorted), x)

RECURSIVE InsertDescending(_, _)
InsertDescending(sorted, x) ==
    IF sorted = <<>> THEN <<x>>
    ELSE IF RLt(Head(sorted).overall_priority_score, x.overall_priority_score)
         THEN <<x>> \o sorted
         ELSE <<Head(sorted)>> \o InsertDescending(Tail(sorted), x)

RECURSIVE SortDescending(_)
SortDescending(s) ==
    IF s = <<>> THEN <<>>
    ELSE InsertDescending(SortDescending(SubSeq(s, 1, Len(s) - 1)), s[Len(s)])

\* for rank, score in enumerate(priority_scores, 1): score.rank = rank
AssignRanks(s) == [i \in 1..Len(s) |-> [s[i] EXCEPT !.rank = i]]

\* variant: the scores are rescaled by the best score of the collection
prioritize_all_drivers_normalised ==
    LET scored == [i \in 1..Len(drivers_df) |-> ScoreDriver(drivers_df[i])]
        best == CHOOSE i \in 1..Len(scored) :
                    \A j \in 1..Len(scored) :
                        RLe(scored[j].overall_priority_score, scored[i].overall_priority_score)
        Rescaled(x) == [x EXCEPT !.overall_priority_score =
                            RDiv(@, scored[best].overall_priority_score)]
    IN  IF drivers_df = <<>> THEN <<>>
        ELSE AssignRanks(SortDescending([i \in 1..Len(scored) |-> Rescaled(scored[i])]))

prioritize_all_drivers ==
    AssignRanks(SortDescending([i \in 1..Len(drivers_df) |-> ScoreDriver(drivers_df[i])]))

\* all_scores[:n]; a negative n counts from the end of the list
get_top_drivers(n) ==
    LET all_scores == prioritize_all_drivers
        stop == IF n < 0 THEN Len(all_scores) + n ELSE n
    IN  SubSeq(all_scores, 1, IF stop < Len(all_scores) THEN stop ELSE Len(all_scores))

\* variant: an absent driver gets a score object with zeroed fields
get_driver_priority_defaulted(earner_id) ==
    LET all_scores == prioritize_all_drivers
        hits == {i \in 1..Len(all_scores) : all_scores[i].earner_id = earner_id}
    IN  IF hits = {}
        THEN <<[earner_id |-> earner_id, raw_rating |-> RZero,
                experience_adjusted_rating |-> RZero, experience_boost |-> RZero,
                acceptance_rate |-> RZero, cancellation_reliability |-> RZero,
                recent_activeness |-> RZero, safety_score |-> RZero,
                overall_priority_score |-> RZero, rank |-> 0]>>
        ELSE <<all_scores[CHOOSE i \in hits : \A j \in hits : i <= j]>>

\* variant: the driver is scored and ranked alone
get_driver_priority_isolated(earner_id) ==
    LET hits == {i \in 1..Len(drivers_df) : drivers_df[i].earner_id = earner_id}
    IN  IF hits = {} THEN <<>>
        ELSE <<[ScoreDriver(drivers_df[CHOOSE i \in hits : \A j \in hits : i <= j])
                    EXCEPT !.rank = 1]>>

\* Optional[DriverPriorityScore]: <<score>> or <<>> for None
get_driver_priority(earner_id) ==
    LET all_scores == prioritize_all_drivers
        hits == {i \in 1..Len(all_scores) : all_scores[i].earner_id = earner_id}
    IN  IF hits = {} THEN <<>>
        ELSE <<all_scores[CHOOSE i \in hits : \A j \in hits : i <= j]>>

-----------------------------------------------------------------------------
(* pandas helpers of DigitalTwinAgent.                                     *)

DayNames == <<"Monday", "Tuesday", "Wednesday", "Thursday", "Friday", "Saturday", "Sunday">>

\* dt.day_name() of a date counted in days from a Monday
day_name(date) == DayNames[(date % 7) + 1]

\* one row of rides_data with the columns _preprocess_data derives
Ride(driver_id, date, hour, duration_mins, net_earnings, zone) ==
    [driver_id         |-> driver_id,
     date              |-> date,
     hour              |-> hour,
     day_name          |-> day_name(date),
     duration_mins     |-> duration_mins,
     net_earnings      |-> net_earnings,
     pickup_hex_id9    |-> zone,
     earnings_per_hour |-> FDiv(Int2R(net_earnings * 60), Int2R(duration_mins))]

Column(rows, name) == [i \in 1..Len(rows) |-> rows[i][name]]

Count(s, k) == Cardinality({i \in 1..Len(s) : s[i] = k})

Keys(s) == {s[i] : i \in 1..Len(s)}

\* Series.value_counts(): the distinct values with their counts in
\* descending order of count; pandas does not fix the order among equal
\* counts, so every such order is a possible result
ValueCountOrders(s) ==
    LET K == Keys(s)
        n == Cardinality(K)
    IN  {f \in [1..n -> K] :
            /\ \A i, j \in 1..n : i # j => f[i] # f[j]
            /\ \A i, j \in 1..n : i < j => Count(s, f[i]) >= Count(s, f[j])}

value_counts(s, order) == [i \in 1..Len(order) |-> [key |-> order[i], count |-> Count(s, order[i])]]

RECURSIVE SortInts(_)
SortInts(S) ==
    IF S = {} THEN <<>>
    ELSE LET m == CHOOSE x \in S : \A y \in S : x <= y
         IN  <<m>> \o SortInts(S \ {m})

\* value_counts().sort_index() and groupby(...).size() for integer keys
CountsByKey(s) ==
    LET ks == SortInts(Keys(s))
    IN  [i \in 1..Len(ks) |-> [key |-> ks[i], count |-> Count(s, ks[i])]]

\* variant: among equal counts the later entry of the series comes first
RECURSIVE InsertByCountLaterFirst(_, _)
InsertByCountLaterFirst(sorted, x) ==
    IF sorted = <<>> THEN <<x>>
    ELSE IF Head(sorted).count <= x.count
         THEN <<x>> \o sorted
         ELSE <<Head(sorted)>> \o InsertByCountLaterFirst(Tail(sorted), x)

RECURSIVE InsertByCount(_, _)
InsertByCount(sorted, x) ==
    IF sorted = <<>> THEN <<x>>
    ELSE IF Head(sorted).count < x.count
         THEN <<x>> \o sorted
         ELSE <<Head(sorted)>> \o InsertByCount(Tail(sorted), x)

RECURSIVE SortByCount(_)
SortByCount(vc) ==
    IF vc = <<>> THEN <<>>
    ELSE InsertByCount(SortByCount(SubSeq(vc, 1, Len(vc) - 1)), vc[Len(vc)])

FirstN(s, n) == SubSeq(s, 1, IF n < Len(s) THEN n ELSE Len(s))

\* variant: the whole series in descending order, not its first n entries
nlargest_uncut(vc, n) == SortByCount(vc)

\* Series.nlargest(n) (keep = 'first'): largest counts first, equal counts
\* in the order of the series
nlargest(vc, n) == FirstN(SortByCount(vc), n)

\* Series.quantile(q) with linear interpolation, q = qnum / 10, then int()
RECURSIVE SortValues(_)
SortValues(s) ==
    IF s = <<>> THEN <<>>
    ELSE LET i == CHOOSE a \in 1..Len(s) : \A b \in 1..Len(s) : s[a] <= s[b]
         IN  <<s[i]>> \o SortValues([j \in 1..(Len(s) - 1) |-> IF j < i THEN s[j] ELSE s[j + 1]])

IntQuantile(s, qnum) ==
    LET x == SortValues(s)
        pos == qnum * (Len(x) - 1)
        lo == pos \div 10
        frac == pos % 10
        v == IF frac = 0 THEN Int2R(x[lo + 1])
             ELSE RAdd(Int2R(x[lo + 1]), R(frac * (x[lo + 2] - x[lo + 1]), 10))
    IN  v.num \div v.den

-----------------------------------------------------------------------------
(* DigitalTwinAgent: profile learning.                                     *)

RidesOf(driver_id) == SelectSeq(rides_data, LAMBDA r : r.driver_id = driver_id)

\* rows of the frame for one calendar day, days in ascending order
Dates(driver_rides) == SortInts(Keys(Column(driver_rides, "date")))
RidesOn(driver_rides, date) == SelectSeq(driver_rides, LAMBDA r : r.date = date)

MinOf(s) == CHOOSE x \in Keys(s) : \A y \in Keys(s) : x <= y
MaxOf(s) == CHOOSE x \in Keys(s) : \A y \in Keys(s) : x >= y

\* DataFrame.merge(how = 'left') of the hourly ride counts with surge_data
SurgeMerged(driver_rides) ==
    LET hourly_rides == CountsByKey(Column(driver_rides, "hour"))
        RowsFor(h) ==
            LET m == SelectSeq(surge_data, LAMBDA sr : sr.hour = h.key)
            IN  IF m = <<>> THEN <<[ride_count |-> Int2R(h.count), surge_multiplier |-> NaN]>>
                ELSE [i \in 1..Len(m) |->
                        [ride_count |-> Int2R(h.count), surge_multiplier |-> m[i].surge_multiplier]]
        Merge[k \in 0..Len(hourly_rides)] ==
            IF k = 0 THEN <<>> ELSE Merge[k - 1] \o RowsFor(hourly_rides[k])
    IN  Merge[Len(hourly_rides)]

\* variant: the correlation is returned as it is, defined or not
_calculate_surge_responsiveness_unchecked(driver_rides) ==
    IF Len(driver_rides) = 0 THEN RZero
    ELSE LET surge_merged == SurgeMerged(driver_rides)
             correlation == Pearson(Column(surge_merged, "ride_count"),
                                    Column(surge_merged, "surge_multiplier"))
         IN  IF Len(surge_merged) > 1 THEN correlation ELSE RZero

_calculate_surge_responsiveness(driver_rides) ==
    IF Len(driver_rides) = 0 THEN RZero
    ELSE LET surge_merged == SurgeMerged(driver_rides)
             correlation == Pearson(Column(surge_merged, "ride_count"),
                                    Column(surge_merged, "surge_multiplier"))
         IN  IF Len(surge_merged) > 1
             THEN (IF ~IsNaN(correlation) THEN correlation ELSE RZero)
             ELSE RZero

\* variant: five days of data are taken to be enough
_estimate_fatigue_threshold_five_days(driver_rides) ==
    LET dates == Dates(driver_rides)
        working_hours == [i \in 1..Len(dates) |->
            LET h == Column(RidesOn(driver_rides, dates[i]), "hour")
            IN  MaxOf(h) - MinOf(h) + 1]
        avg_efficiency == [i \in 1..Len(dates) |->
            SeriesMean(Column(RidesOn(driver_rides, dates[i]), "earnings_per_hour"))]
    IN  IF /\ Len(dates) > 4
           /\ PearsonBelow([i \in 1..Len(dates) |-> Int2R(working_hours[i])],
                           avg_efficiency, R(-3, 10))
        THEN IntQuantile(working_hours, 7)
        ELSE 8

_estimate_fatigue_threshold(driver_rides) ==
    LET dates == Dates(driver_rides)
        working_hours == [i \in 1..Len(dates) |->
            LET h == Column(RidesOn(driver_rides, dates[i]), "hour")
            IN  MaxOf(h) - MinOf(h) + 1]
        avg_efficiency == [i \in 1..Len(dates) |->
            SeriesMean(Column(RidesOn(driver_rides, dates[i]), "earnings_per_hour"))]
    IN  IF /\ Len(dates) > 5
           /\ PearsonBelow([i \in 1..Len(dates) |-> Int2R(working_hours[i])],
                           avg_efficiency, R(-3, 10))
        THEN IntQuantile(working_hours, 7)
        ELSE 8

_calculate_consistency(driver_rides) ==
    LET dates == Dates(driver_rides)
        daily_first_ride == [i \in 1..Len(dates) |->
            Int2R(MinOf(Column(RidesOn(driver_rides, dates[i]), "hour")))]
        start_time_std == SeriesStd(daily_first_ride)
        daily_rides == [i \in 1..Len(dates) |-> Int2R(Len(RidesOn(driver_rides, dates[i])))]
        ride_count_cv == IF FLt(RZero, SeriesMean(daily_rides))
                         THEN FDiv(SeriesStd(daily_rides), SeriesMean(daily_rides))
                         ELSE ROne
        consistency == FDiv(ROne, FAdd(FAdd(ROne, start_time_std), ride_count_cv))
    IN  PyMin(consistency, ROne)

\* the statistics of learn_driver_patterns for a driver that has rides;
\* day_order and zone_order are the orders value_counts() produced
LearnedProfile(driver_id, day_order, zone_order) ==
    LET driver_rides == RidesOf(driver_id)
        driver_incentives == SelectSeq(incentives_data, LAMBDA r : r.earner_id = driver_id)
        hourly_activity == CountsByKey(Column(driver_rides, "hour"))
        daily_activity == value_counts(Column(driver_rides, "day_name"), day_order)
    IN  [driver_id                 |-> driver_id,
         preferred_hours           |-> Column(nlargest(hourly_activity, 8), "key"),
         peak_days                 |-> Column(nlargest(daily_activity, 3), "key"),
         avg_earnings_per_hour     |-> SeriesMean(Column(driver_rides, "earnings_per_hour")),
         surge_responsiveness      |-> _calculate_surge_responsiveness(driver_rides),
         fatigue_threshold         |-> _estimate_fatigue_threshold(driver_rides),
         preferred_zones           |->
             Column(FirstN(value_counts(Column(driver_rides, "pickup_hex_id9"), zone_order), 5), "key"),
         incentive_completion_rate |->
             IF Len(driver_incentives) > 0
             THEN SeriesMean([i \in 1..Len(driver_incentives) |-> Int2R(driver_incentives[i].achieved)])
             ELSE RZero,
         consistency_score         |-> _calculate_consistency(driver_rides)]

\* variant: a driver without rides gets a profile of defaults
learn_driver_patterns_defaulted(driver_id, day_order, zone_order) ==
    IF Len(RidesOf(driver_id)) = 0
    THEN Return([driver_id |-> driver_id, preferred_hours |-> <<>>, peak_days |-> <<>>,
                 avg_earnings_per_hour |-> RZero, surge_responsiveness |-> RZero,
                 fatigue_threshold |-> 8, preferred_zones |-> <<>>,
                 incentive_completion_rate |-> RZero, consistency_score |-> RZero])
    ELSE Return(LearnedProfile(driver_id, day_order, zone_order))

learn_driver_patterns(driver_id, day_order, zone_order) ==
    IF Len(RidesOf(driver_id)) = 0 THEN Raise("ValueError")
    ELSE Return(LearnedProfile(driver_id, day_order, zone_order))

-----------------------------------------------------------------------------
(* Exact comparison of products of two floats (the key of max()).          *)

\* naturals as little-endian sequences of limbs below 10000
RECURSIVE ToBig(_)
ToBig(n) == IF n = 0 THEN <<>> ELSE <<n % 10000>> \o ToBig(n \div 10000)

RECURSIVE BigAdd(_, _, _)
BigAdd(a, b, carry) ==
    IF a = <<>> /\ b = <<>> THEN (IF carry = 0 THEN <<>> ELSE <<carry>>)
    ELSE LET x == IF a = <<>> THEN 0 ELSE Head(a)
             y == IF b = <<>> THEN 0 ELSE Head(b)
             t == x + y + carry
         IN  <<t % 10000>> \o BigAdd(IF a = <<>> THEN <<>> ELSE Tail(a),
                                     IF b = <<>> THEN <<>> ELSE Tail(b), t \div 10000)

RECURSIVE BigMulLimb(_, _, _)
BigMulLimb(a, l, carry) ==
    IF a = <<>> THEN (IF carry = 0 THEN <<>> ELSE <<carry>>)
    ELSE LET t == Head(a) * l + carry
         IN  <<t % 10000>> \o BigMulLimb(Tail(a), l, t \div 10000)

RECURSIVE BigMul(_, _)
BigMul(a, b) ==
    IF a = <<>> \/ b = <<>> THEN <<>>
    ELSE BigAdd(BigMulLimb(a, Head(b), 0), <<0>> \o BigMul(a, Tail(b)), 0)

RECURSIVE BigTrim(_)
BigTrim(a) ==
    IF a = <<>> THEN <<>>
    ELSE IF a[Len(a)] = 0 THEN BigTrim(SubSeq(a, 1, Len(a) - 1)) ELSE a

RECURSIVE BigLessAligned(_, _)
BigLessAligned(a, b) ==
    IF a = <<>> THEN FALSE
    ELSE IF a[Len(a)] # b[Len(b)] THEN a[Len(a)] < b[Len(b)]
    ELSE BigLessAligned(SubSeq(a, 1, Len(a) - 1), SubSeq(b, 1, Len(b) - 1))

BigLess(a, b) ==
    LET x == BigTrim(a)
        y == BigTrim(b)
    IN  IF Len(x) # Len(y) THEN Len(x) < Len(y) ELSE BigLessAligned(x, y)

\* p1 * f1 < p2 * f2 as IEEE compares the two products
ProductLess(p1, f1, p2, f2) ==
    IF ~IsFinite(p1) \/ ~IsFinite(f1) \/ ~IsFinite(p2) \/ ~IsFinite(f2)
    THEN FLt(IF IsFinite(p1) /\ IsFinite(f1) THEN RZero ELSE FMul(p1, f1),
             IF IsFinite(p2) /\ IsFinite(f2) THEN RZero ELSE FMul(p2, f2))
    ELSE LET s1 == Sign(p1) * Sign(f1)
             s2 == Sign(p2) * Sign(f2)
             m1 == BigMul(BigMul(ToBig(Abs(p1.num)), ToBig(Abs(f1.num))),
                          BigMul(ToBig(p2.den), ToBig(f2.den)))
             m2 == BigMul(BigMul(ToBig(Abs(p2.num)), ToBig(Abs(f2.num))),
                          BigMul(ToBig(p1.den), ToBig(f1.den)))
         IN  IF s1 # s2 THEN s1 < s2
             ELSE IF s1 = 0 THEN FALSE
             ELSE IF s1 > 0 THEN BigLess(m1, m2)
             ELSE BigLess(m2, m1)

ProductIsNaN(p1, f1) == IsNaN(FMul(IF IsFinite(p1) THEN Int2R(Sign(p1)) ELSE p1,
                                   IF IsFinite(f1) THEN Int2R(Sign(f1)) ELSE f1))

-----------------------------------------------------------------------------
(* DigitalTwinAgent: scenario simulation.                                  *)

\* variant: the mean is taken over the rows of every driver
_get_current_performance_unfiltered(driver_id) ==
    LET driver_earnings == earnings_data
        Mean7(name) == FMul(SeriesMean([i \in 1..Len(driver_earnings) |->
                                            Int2R(driver_earnings[i][name])]), Int2R(7))
    IN  IF Len(driver_earnings) = 0
        THEN [weekly_earnings |-> RZero, weekly_hours |-> RZero, weekly_rides |-> RZero,
              python_ints |-> TRUE]
        ELSE [weekly_earnings |-> Mean7("total_net_earnings"),
              weekly_hours    |-> FDiv(Mean7("rides_duration_mins"), Int2R(60)),
              weekly_rides    |-> Mean7("trips_count"),
              python_ints     |-> FALSE]

\* python_ints: the values are the int 0 of the literal, not numpy floats
_get_current_performance(driver_id) ==
    LET driver_earnings == SelectSeq(earnings_data, LAMBDA r : r.earner_id = driver_id)
        Mean7(name) == FMul(SeriesMean([i \in 1..Len(driver_earnings) |->
                                            Int2R(driver_earnings[i][name])]), Int2R(7))
    IN  IF Len(driver_earnings) = 0
        THEN [weekly_earnings |-> RZero, weekly_hours |-> RZero, weekly_rides |-> RZero,
              python_ints |-> TRUE]
        ELSE [weekly_earnings |-> Mean7("total_net_earnings"),
              weekly_hours    |-> FDiv(Mean7("rides_duration_mins"), Int2R(60)),
              weekly_rides    |-> Mean7("trips_count"),
              python_ints     |-> FALSE]

\* a dict as the sequence of its items in insertion order: a key that is
\* set again keeps its place and takes the new value
RECURSIVE DictOf(_)
DictOf(items) ==
    IF items = <<>> THEN <<>>
    ELSE LET rest == DictOf(SubSeq(items, 1, Len(items) - 1))
             last == items[Len(items)]
         IN  IF \E i \in 1..Len(rest) : rest[i].day = last.day
             THEN [i \in 1..Len(rest) |-> IF rest[i].day = last.day THEN last ELSE rest[i]]
             ELSE Append(rest, last)

\* variant: early_bird keeps the hours that shift below 0
Scenarios_unfiltered(driver_profile) ==
    LET first4 == FirstN(driver_profile.preferred_hours, 4)
        peak == driver_profile.peak_days
        surge_days == peak \o <<"Friday", "Saturday">>
        weekdays == <<"Monday", "Tuesday", "Wednesday", "Thursday", "Friday">>
    IN  <<[name |-> "current_pattern",
           schedule |-> DictOf([i \in 1..Len(peak) |-> [day |-> peak[i], hours |-> first4]])],
          [name |-> "early_bird",
           schedule |-> DictOf([i \in 1..Len(peak) |->
               [day |-> peak[i],
                hours |-> LET kept == first4
                          IN  [j \in 1..Len(kept) |-> kept[j] - 2]]])],
          [name |-> "surge_optimizer",
           schedule |-> DictOf([i \in 1..Len(surge_days) |->
               [day |-> surge_days[i],
                hours |-> IF surge_days[i] \in {"Friday", "Saturday"}
                          THEN <<17, 18, 19, 20, 21, 22>>
                          ELSE first4]])],
          [name |-> "consistent_grind",
           schedule |-> DictOf([i \in 1..Len(weekdays) |->
               [day |-> weekdays[i], hours |-> <<9, 10, 11, 16, 17, 18>>]])],
          [name |-> "weekend_warrior",
           schedule |-> DictOf(<<[day |-> "Friday", hours |-> <<16, 17, 18, 19, 20, 21, 22>>],
                                 [day |-> "Saturday", hours |-> <<12, 13, 14, 18, 19, 20, 21, 22>>],
                                 [day |-> "Sunday", hours |-> <<12, 13, 14, 17, 18, 19>>]>>)]>>

Scenarios(driver_profile) ==
    LET first4 == FirstN(driver_profile.preferred_hours, 4)
        peak == driver_profile.peak_days
        surge_days == peak \o <<"Friday", "Saturday">>
        weekdays == <<"Monday", "Tuesday", "Wednesday", "Thursday", "Friday">>
    IN  <<[name |-> "current_pattern",
           schedule |-> DictOf([i \in 1..Len(peak) |-> [day |-> peak[i], hours |-> first4]])],
          [name |-> "early_bird",
           schedule |-> DictOf([i \in 1..Len(peak) |->
               [day |-> peak[i],
                hours |-> LET kept == SelectSeq(first4, LAMBDA h : h - 2 >= 0)
                          IN  [j \in 1..Len(kept) |-> kept[j] - 2]]])],
          [name |-> "surge_optimizer",
           schedule |-> DictOf([i \in 1..Len(surge_days) |->
               [day |-> surge_days[i],
                hours |-> IF surge_days[i] \in {"Friday", "Saturday"}
                          THEN <<17, 18, 19, 20, 21, 22>>
                          ELSE first4]])],
          [name |-> "consistent_grind",
           schedule |-> DictOf([i \in 1..Len(weekdays) |->
               [day |-> weekdays[i], hours |-> <<9, 10, 11, 16, 17, 18>>]])],
          [name |-> "weekend_warrior",
           schedule |-> DictOf(<<[day |-> "Friday", hours |-> <<16, 17, 18, 19, 20, 21, 22>>],
                                 [day |-> "Saturday", hours |-> <<12, 13, 14, 18, 19, 20, 21, 22>>],
                                 [day |-> "Sunday", hours |-> <<12, 13, 14, 17, 18, 19>>]>>)]>>

\* variant: peak_days is extended in place to build the surge_optimizer days
_generate_scenarios_extending(driver_profile) ==
    [scenarios |-> Scenarios(driver_profile),
     profile   |-> [driver_profile EXCEPT !.peak_days = @ \o <<"Friday", "Saturday">>]]

\* the scenario dict, and the DriverProfile object as the call leaves it
_generate_scenarios(driver_profile) ==
    [scenarios |-> Scenarios(driver_profile),
     profile   |-> driver_profile]

\* variant: the mean is taken also when no row matches the hour
_get_surge_multiplier_mean_of_none(hour) ==
    LET surge_hour == SelectSeq(surge_data, LAMBDA r : r.hour = hour)
    IN  SeriesMean(Column(surge_hour, "surge_multiplier"))

_get_surge_multiplier(hour) ==
    LET surge_hour == SelectSeq(surge_data, LAMBDA r : r.hour = hour)
    IN  IF Len(surge_hour) > 0
        THEN SeriesMean(Column(surge_hour, "surge_multiplier"))
        ELSE ROne

\* variant: the surge bonus is taken from the base after the fatigue penalty
SlotEarnings_bonus_after_penalty(driver_profile, day, hours, hour) ==
    LET base_earnings == driver_profile.avg_earnings_per_hour
        surge_mult == _get_surge_multiplier(hour)
        daily_hours == Len(hours)
        fatigued == IF daily_hours > driver_profile.fatigue_threshold
                    THEN FMul(base_earnings,
                              FSub(ROne, R(daily_hours - driver_profile.fatigue_threshold, 10)))
                    ELSE base_earnings
        surge_bonus == FMul(FMul(fatigued, FSub(surge_mult, ROne)),
                            driver_profile.surge_responsiveness)
        boosted == IF \E i \in 1..Len(driver_profile.peak_days) : driver_profile.peak_days[i] = day
                   THEN FMul(fatigued, R(11, 10))
                   ELSE fatigued
    IN  FAdd(boosted, surge_bonus)

\* one pass of the inner loop: base_earnings + surge_bonus
SlotEarnings(driver_profile, day, hours, hour) ==
    LET base_earnings == driver_profile.avg_earnings_per_hour
        surge_mult == _get_surge_multiplier(hour)
        surge_bonus == FMul(FMul(base_earnings, FSub(surge_mult, ROne)),
                            driver_profile.surge_responsiveness)
        daily_hours == Len(hours)
        fatigued == IF daily_hours > driver_profile.fatigue_threshold
                    THEN FMul(base_earnings,
                              FSub(ROne, R(daily_hours - driver_profile.fatigue_threshold, 10)))
                    ELSE base_earnings
        boosted == IF \E i \in 1..Len(driver_profile.peak_days) : driver_profile.peak_days[i] = day
                   THEN FMul(fatigued, R(11, 10))
                   ELSE fatigued
    IN  FAdd(boosted, surge_bonus)

\* python_int: no slot was added to the literal 0
_project_earnings(driver_profile, schedule) ==
    LET DayTotal(item) ==
            FSum([j \in 1..Len(item.hours) |->
                    SlotEarnings(driver_profile, item.day, item.hours, item.hours[j])])
    IN  [value      |-> FSum([i \in 1..Len(schedule) |-> DayTotal(schedule[i])]),
         python_int |-> \A i \in 1..Len(schedule) : schedule[i].hours = <<>>]

ScheduleHours(schedule) ==
    UNION {Keys(schedule[i].hours) : i \in 1..Len(schedule)}

RECURSIVE TotalHours(_)
TotalHours(schedule) ==
    IF schedule = <<>> THEN 0 ELSE Len(Head(schedule).hours) + TotalHours(Tail(schedule))

\* variant: the sum is returned as it is
_calculate_feasibility_unclamped(driver_profile, schedule) ==
    LET total_hours == TotalHours(schedule)
        pattern_match ==
            R(Cardinality(Keys(driver_profile.preferred_hours) \cap ScheduleHours(schedule)),
              Len(driver_profile.preferred_hours))
        overwork_penalty ==
            PyMax(RZero, R(total_hours - driver_profile.fatigue_threshold * Len(schedule), 10))
        consistency_bonus == FMul(driver_profile.consistency_score, R(2, 10))
        feasibility == FSub(FAdd(pattern_match, consistency_bonus), overwork_penalty)
    IN  IF Len(driver_profile.preferred_hours) = 0 THEN Raise("ZeroDivisionError")
        ELSE Return(feasibility)

\* variant: the overwork penalty is not cut at 0, so spare hours add to the score
_calculate_feasibility_signed_penalty(driver_profile, schedule) ==
    LET total_hours == TotalHours(schedule)
        pattern_match ==
            R(Cardinality(Keys(driver_profile.preferred_hours) \cap ScheduleHours(schedule)),
              Len(driver_profile.preferred_hours))
        overwork_penalty == R(total_hours - driver_profile.fatigue_threshold * Len(schedule), 10)
        consistency_bonus == FMul(driver_profile.consistency_score, R(2, 10))
        feasibility == FSub(FAdd(pattern_match, consistency_bonus), overwork_penalty)
    IN  IF Len(driver_profile.preferred_hours) = 0 THEN Raise("ZeroDivisionError")
        ELSE Return(PyMax(RZero, PyMin(ROne, feasibility)))

_calculate_feasibility(driver_profile, schedule) ==
    LET total_hours == TotalHours(schedule)
        pattern_match ==
            R(Cardinality(Keys(driver_profile.preferred_hours) \cap ScheduleHours(schedule)),
              Len(driver_profile.preferred_hours))
        overwork_penalty ==
            PyMax(RZero, R(total_hours - driver_profile.fatigue_threshold * Len(schedule), 10))
        consistency_bonus == FMul(driver_profile.consistency_score, R(2, 10))
        feasibility == FSub(FAdd(pattern_match, consistency_bonus), overwork_penalty)
    IN  IF Len(driver_profile.preferred_hours) = 0 THEN Raise("ZeroDivisionError")
        ELSE Return(PyMax(RZero, PyMin(ROne, feasibility)))

\* max(results.keys(), key = projected_weekly_earnings * feasibility_score):
\* a later scenario replaces the best one only when its key is greater
RECURSIVE BestOf(_)
BestOf(results) ==
    IF Len(results) = 1 THEN results[1]
    ELSE LET best == BestOf(SubSeq(results, 1, Len(results) - 1))
             x == results[Len(results)]
         IN  IF ProductLess(best.projected_weekly_earnings, best.feasibility_score,
                            x.projected_weekly_earnings, x.feasibility_score)
             THEN x ELSE best

\* the outcome of the call, and the DriverProfile object as the call leaves it
simulate_optimal_week(driver_profile) ==
    LET current_performance == _get_current_performance(driver_profile.driver_id)
        generated == _generate_scenarios(driver_profile)
        prof == generated.profile
        scenarios == generated.scenarios
        evaluated == [i \in 1..Len(scenarios) |->
            LET projected_earnings == _project_earnings(prof, scenarios[i].schedule)
                feasibility == _calculate_feasibility(prof, scenarios[i].schedule)
            IN  \* (int 0 - int 0) / int 0 is Python's division; numpy divides otherwise
                [raises |-> \/ (projected_earnings.python_int /\ current_performance.python_ints)
                            \/ feasibility.exc # "none",
                 result |->
                    [name                      |-> scenarios[i].name,
                     schedule                  |-> scenarios[i].schedule,
                     projected_weekly_earnings |-> projected_earnings.value,
                     improvement               |->
                         FMul(FDiv(FSub(projected_earnings.value,
                                        current_performance.weekly_earnings),
                                   current_performance.weekly_earnings), Int2R(100)),
                     feasibility_score         |-> feasibility.value]]]
        results == [i \in 1..Len(scenarios) |-> evaluated[i].result]
    IN  [outcome |->
            IF \E i \in 1..Len(scenarios) : evaluated[i].raises THEN Raise("ZeroDivisionError")
            ELSE Return([current_performance |-> current_performance,
                         scenarios           |-> results,
                         best_scenario       |-> BestOf(results).name]),
         profile |-> prof]

-----------------------------------------------------------------------------
(* The scorer as a state machine.                                          *)

EarnerIds == <<"E1", "E2", "E3", "E4", "E5", "E6">>
AbsentId == "E0"

\* statistics of one row of drivers_df as _enrich_driver_data leaves them:
\* acceptance_rate in [0.5, 1], cancellation_rate in [0, 0.25], activeness
\* and safety_score in [0, 1], completed_trips >= 0
RowStats ==
    {[rating |-> r, completed_trips |-> n, acceptance_rate |-> ROne,
      cancellation_rate |-> RZero, activeness_score |-> ROne, safety_score |-> ROne] :
        r \in {R(4, 1), R(5, 1)}, n \in {0, 100}}
    \cup
    {[rating |-> R(5, 1), completed_trips |-> 100, acceptance_rate |-> R(1, 2),
      cancellation_rate |-> R(1, 4), activeness_score |-> RZero, safety_score |-> RZero]}

WithId(stats, id) ==
    [earner_id |-> id, rating |-> stats.rating, completed_trips |-> stats.completed_trips,
     acceptance_rate |-> stats.acceptance_rate, cancellation_rate |-> stats.cancellation_rate,
     activeness_score |-> stats.activeness_score, safety_score |-> stats.safety_score]

\* every table of at most MaxDrivers rows; row i carries the i-th earner id
DriverTables ==
    UNION {{[i \in 1..k |-> WithId(f[i], EarnerIds[i])] : f \in [1..k -> RowStats]} :
           k \in 0..MaxDrivers}

\* arguments of direct calls: the corners and interior of the valid ranges,
\* and every trip count of a dense range that starts below zero
ValidInputs ==
    {[rating |-> r, completed_trips |-> n, acceptance_rate |-> a,
      cancellation_rate |-> c, activeness_score |-> l, safety_score |-> s] :
        r \in {R(1, 1), R(47, 10), R(49, 10), R(5, 1)},
        n \in {0, 20, 980, 100000},
        a \in {RZero, R(1, 2), ROne},
        c \in {RZero, ROne},
        l \in {RZero, ROne},
        s \in {RZero, ROne}}

DenseInputs ==
    {[rating |-> R(49, 10), completed_trips |-> n, acceptance_rate |-> R(9, 10),
      cancellation_rate |-> R(1, 20), activeness_score |-> R(4, 5), safety_score |-> ROne] :
        n \in (0 - DefaultConfig.equivalent_prior_trips)..MaxDenseTrips}

NoInput == [rating |-> ROne, completed_trips |-> 0, acceptance_rate |-> RZero,
            cancellation_rate |-> RZero, activeness_score |-> RZero, safety_score |-> RZero]

NoCall == [op |-> "none", arg |-> <<>>, exc |-> "none", value |-> <<>>]

Called(op, arg, outcome) ==
    [op |-> op, arg |-> arg, exc |-> outcome.exc, value |-> outcome.value]

\* variant: the table is left in the order of the ranking
PrioritizeAllDrivers_sorting_in_place ==
    /\ call' = Called("prioritize_all_drivers", <<>>, Return(prioritize_all_drivers))
    /\ drivers_df' =
           [i \in 1..Len(drivers_df) |->
               drivers_df[CHOOSE k \in 1..Len(drivers_df) :
                              drivers_df[k].earner_id = prioritize_all_drivers[i].earner_id]]
    /\ UNCHANGED <<config, weights, input, twinVars>>

PrioritizeAllDrivers ==
    /\ call' = Called("prioritize_all_drivers", <<>>, Return(prioritize_all_drivers))
    /\ UNCHANGED <<scorerVars, twinVars>>

GetTopDrivers ==
    \E n \in 0..MaxTop :
        /\ call' = Called("get_top_drivers", <<n>>, Return(get_top_drivers(n)))
        /\ UNCHANGED <<scorerVars, twinVars>>

GetDriverPriority ==
    \E id \in {EarnerIds[i] : i \in 1..MaxDrivers} \cup {AbsentId} :
        /\ call' = Called("get_driver_priority", <<id>>, Return(get_driver_priority(id)))
        /\ UNCHANGED <<scorerVars, twinVars>>

CalculateExperienceAwareRating ==
    /\ call' = Called("calculate_experience_aware_rating",
                      <<input.rating, input.completed_trips>>,
                      calculate_experience_aware_rating(input.rating, input.completed_trips))
    /\ UNCHANGED <<scorerVars, twinVars>>

CalculateExperienceBoost ==
    /\ call' = Called("calculate_experience_boost", <<input.completed_trips>>,
                      Return(calculate_experience_boost(input.completed_trips)))
    /\ UNCHANGED <<scorerVars, twinVars>>

CalculateReliabilityScore ==
    /\ call' = Called("calculate_reliability_score",
                      <<input.acceptance_rate, input.cancellation_rate>>,
                      Return(calculate_reliability_score(input.acceptance_rate,
                                                         input.cancellation_rate)))
    /\ UNCHANGED <<scorerVars, twinVars>>

\* the scoring pipeline of prioritize_all_drivers on one driver's statistics
ScoreOneDriver ==
    /\ calculate_experience_aware_rating(input.rating, input.completed_trips).exc = "none"
    /\ call' = Called("score", <<input>>, Return(ScoreDriver(WithId(input, EarnerIds[1]))))
    /\ UNCHANGED <<scorerVars, twinVars>>

\* the twin holds no data in the specifications of the scorer
TwinIdle ==
    /\ rides_data = <<>>
    /\ earnings_data = <<>>
    /\ incentives_data = <<>>
    /\ surge_data = <<>>
    /\ profile = <<>>
    /\ simulations = <<>>

RankInit ==
    /\ drivers_df \in DriverTables
    /\ config = DefaultConfig
    /\ weights = DefaultWeights
    /\ input = NoInput
    /\ call = NoCall
    /\ TwinIdle

RankNext == PrioritizeAllDrivers \/ GetTopDrivers \/ GetDriverPriority

SpecRank == RankInit /\ [][RankNext]_vars

ScoreInit ==
    /\ drivers_df = <<>>
    /\ config = DefaultConfig
    /\ weights = DefaultWeights
    /\ input \in ValidInputs \cup DenseInputs
    /\ call = NoCall
    /\ TwinIdle

ScoreNext ==
    \/ CalculateExperienceAwareRating
    \/ CalculateExperienceBoost
    \/ CalculateReliabilityScore
    \/ ScoreOneDriver

SpecScore == ScoreInit /\ [][ScoreNext]_vars

\* the options are the public dicts self.config and self.weights: __init__
\* takes no option and checks none, so a caller that wants other options
\* stores them into the dicts of the constructed agent
WeightChoices ==
    {DefaultWeights,
     [DefaultWeights EXCEPT !.rating = R(1, 2)],
     [DefaultWeights EXCEPT !.safety = RZero]}

ConfigChoices ==
    {DefaultConfig,
     [DefaultConfig EXCEPT !.equivalent_prior_trips = -20],
     [DefaultConfig EXCEPT !.max_incidents = -10]}

\* arguments of direct calls that aggregation upstream did not keep in range
RawInputs ==
    {[rating |-> r, completed_trips |-> n, acceptance_rate |-> a,
      cancellation_rate |-> c, activeness_score |-> l, safety_score |-> ROne] :
        r \in {R(1, 1), R(5, 1)},
        n \in {0, 20, 100},
        a \in {R(-1, 10), R(1, 2), ROne},
        c \in {RZero, R(1, 4), R(6, 5)},
        l \in {RZero, ROne}}

\* agent.weights = w; agent.config = c: plain assignments, nothing is checked
OverrideOptions ==
    \E w \in WeightChoices, c \in ConfigChoices :
        /\ weights' = w
        /\ config' = c
        /\ call' = Called("override", <<w, c>>, Return(<<>>))
        /\ UNCHANGED <<drivers_df, input, twinVars>>

OptionsInit ==
    /\ drivers_df = <<>>
    /\ config = DefaultConfig
    /\ weights = DefaultWeights
    /\ input \in RawInputs
    /\ call = NoCall
    /\ TwinIdle

OptionsNext ==
    \/ OverrideOptions
    \/ CalculateExperienceAwareRating
    \/ CalculateReliabilityScore
    \/ ScoreOneDriver

SpecOptions == OptionsInit /\ [][OptionsNext]_vars

-----------------------------------------------------------------------------
(* The digital twin as a state machine.                                    *)

DriverIds == {"D1", "D2", "D3"}

\* rows a rides sheet can hold: driver D1 on a Monday, a Tuesday and a
\* Friday, one of its rides with end_time = start_time, and a ride of D3;
\* D2 has no ride
RideChoices ==
    <<Ride("D1", 0, 0, 30, 10, 101),
      Ride("D1", 0, 1, 60, 30, 101),
      Ride("D1", 1, 9, 30, 20, 101),
      Ride("D1", 4, 18, 60, 20, 102),
      Ride("D1", 1, 1, 0, 10, 101),
      Ride("D3", 0, 9, 30, 10, 101)>>

\* every sheet of 1..MaxRides such rows; the rows are listed in one order
\* only, because no statistic reads the row order except value_counts(),
\* whose order among equal counts is a free choice of LearnDriverPatterns
RideTables ==
    UNION {{[i \in 1..k |-> RideChoices[f[i]]] :
                f \in {g \in [1..k -> 1..Len(RideChoices)] :
                           \A i, j \in 1..k : i < j => g[i] <= g[j]}} :
           k \in 1..MaxRides}

EarningsTables ==
    {<<>>,
     <<[earner_id |-> "D1", total_net_earnings |-> 100, rides_duration_mins |-> 240,
        trips_count |-> 8]>>}

IncentivesTable ==
    <<[earner_id |-> "D1", achieved |-> 1], [earner_id |-> "D1", achieved |-> 0]>>

SurgeRow(hour, num, den) == [hour |-> hour, surge_multiplier |-> R(num, den)]

\* no surge sheet rows at all, or rows for some hours (two for hour 18)
SurgeTables ==
    {<<>>,
     <<SurgeRow(0, 1, 1), SurgeRow(1, 3, 2), SurgeRow(9, 2, 1), SurgeRow(17, 3, 2),
       SurgeRow(18, 1, 1), SurgeRow(18, 2, 1), SurgeRow(19, 3, 2), SurgeRow(20, 3, 2),
       SurgeRow(21, 3, 2), SurgeRow(22, 3, 2)>>}

LearnDriverPatterns ==
    \E id \in DriverIds :
        \E day_order \in ValueCountOrders(Column(RidesOf(id), "day_name")) :
            \E zone_order \in ValueCountOrders(Column(RidesOf(id), "pickup_hex_id9")) :
                LET res == learn_driver_patterns(id, day_order, zone_order)
                IN  /\ call' = Called("learn_driver_patterns", <<id>>, res)
                    /\ profile' = IF res.exc = "none" THEN <<res.value>> ELSE <<>>
                    /\ simulations' = <<>>
                    /\ UNCHANGED <<scorerVars, rides_data, earnings_data, incentives_data,
                                   surge_data>>

SimulateOptimalWeek ==
    /\ profile # <<>>
    /\ Len(simulations) < MaxRepeat
    /\ LET res == simulate_optimal_week(profile[1])
       IN  /\ call' = Called("simulate_optimal_week", <<profile[1]>>, res.outcome)
           /\ profile' = <<res.profile>>
           /\ simulations' = Append(simulations, res.outcome)
    /\ UNCHANGED <<scorerVars, rides_data, earnings_data, incentives_data, surge_data>>

TwinInit ==
    /\ drivers_df = <<>>
    /\ config = DefaultConfig
    /\ weights = DefaultWeights
    /\ input = NoInput
    /\ call = NoCall
    /\ rides_data \in RideTables
    /\ earnings_data \in EarningsTables
    /\ incentives_data = IncentivesTable
    /\ surge_data \in SurgeTables
    /\ profile = <<>>
    /\ simulations = <<>>

TwinNext == LearnDriverPatterns \/ SimulateOptimalWeek

SpecTwin == TwinInit /\ [][TwinNext]_vars

-----------------------------------------------------------------------------
(* The twin on longer histories.                                           *)

\* the rides of one working day, each of 60 minutes: a single ride, a long
\* poorly paid day and a long well paid day on other hours
DayKinds ==
    <<[hours |-> <<8>>, net_earnings |-> 20],
      [hours |-> <<5, 7, 9, 11, 13, 14>>, net_earnings |-> 10],
      [hours |-> <<6, 8, 10, 12, 14>>, net_earnings |-> 30]>>

\* the calendar days of a history: Monday to Wednesday of successive weeks
DayDates == <<0, 1, 2, 7, 8, 9, 14, 15, 16>>

RidesOfDay(kind, date) ==
    [j \in 1..Len(DayKinds[kind].hours) |->
        Ride("D1", date, DayKinds[kind].hours[j], 60, DayKinds[kind].net_earnings, 101)]

RECURSIVE HistoryRides(_)
HistoryRides(kinds) ==
    IF kinds = <<>> THEN <<>>
    ELSE HistoryRides(SubSeq(kinds, 1, Len(kinds) - 1))
             \o RidesOfDay(kinds[Len(kinds)], DayDates[Len(kinds)])

\* a history of D1 over four weekdays, ten hours of the day and six zones,
\* and one ride of D3, who has no incentive record
WideHistory ==
    <<Ride("D1", 0, 0, 60, 20, 101), Ride("D1", 0, 1, 60, 20, 101),
      Ride("D1", 0, 5, 60, 20, 101), Ride("D1", 0, 23, 60, 20, 102),
      Ride("D1", 1, 6, 60, 20, 102), Ride("D1", 1, 9, 60, 20, 103),
      Ride("D1", 1, 12, 60, 20, 103), Ride("D1", 2, 15, 60, 20, 104),
      Ride("D1", 3, 18, 60, 20, 105), Ride("D1", 3, 21, 60, 20, 106),
      Ride("D1", 7, 0, 60, 20, 101), Ride("D3", 0, 9, 60, 20, 101)>>

\* every history of driver D1 over 1..MaxDays days (D2 and D3 have no
\* ride), and the wide history
HistoryTables ==
    UNION {{HistoryRides(f) :
                f \in {g \in [1..k -> 1..Len(DayKinds)] :
                           \A i, j \in 1..k : i < j => g[i] <= g[j]}} :
           k \in 1..MaxDays}
    \cup {WideHistory}

\* no surge sheet, one whose multiplier peaks in the morning, and a flat one
HistorySurgeTables ==
    {<<>>,
     <<SurgeRow(5, 1, 1), SurgeRow(6, 1, 1), SurgeRow(7, 3, 2), SurgeRow(8, 2, 1),
       SurgeRow(9, 2, 1), SurgeRow(10, 3, 2), SurgeRow(11, 1, 1), SurgeRow(12, 1, 1),
       SurgeRow(13, 1, 1), SurgeRow(14, 1, 1)>>,
     <<SurgeRow(8, 3, 2), SurgeRow(9, 3, 2), SurgeRow(10, 3, 2)>>}

LearnInit ==
    /\ drivers_df = <<>>
    /\ config = DefaultConfig
    /\ weights = DefaultWeights
    /\ input = NoInput
    /\ call = NoCall
    /\ rides_data \in HistoryTables
    /\ earnings_data = <<>>
    /\ incentives_data = IncentivesTable
    /\ surge_data \in HistorySurgeTables
    /\ profile = <<>>
    /\ simulations = <<>>

LearnNext == LearnDriverPatterns

SpecLearn == LearnInit /\ [][LearnNext]_vars

-----------------------------------------------------------------------------
(* _project_earnings called with a profile and a schedule of the caller.   *)

\* DriverProfile objects with a positive fatigue threshold; Monday is the
\* only peak day
ProjectProfiles ==
    {[driver_id |-> "D1", preferred_hours |-> <<8, 9>>, peak_days |-> <<"Monday">>,
      avg_earnings_per_hour |-> Int2R(20), surge_responsiveness |-> sr,
      fatigue_threshold |-> ft, preferred_zones |-> <<101>>,
      incentive_completion_rate |-> R(1, 2), consistency_score |-> R(1, 2)] :
        sr \in {RZero, R(1, 2), R(-1, 2)}, ft \in {1, 4, 5, 8}}

\* the empty schedule, and schedules of one or two days with the hours
\* 0 .. k-1
DaySchedule(d, k) == [day |-> d, hours |-> [j \in 1..k |-> j - 1]]

ProjectSchedules ==
    {<<DaySchedule(d, k)>> : d \in {"Monday", "Saturday"}, k \in {0, 5, 9, MaxDayHours}}
    \cup {<<DaySchedule("Monday", 8), DaySchedule("Saturday", k)>> : k \in {6, MaxDayHours}}
    \cup {<<>>}

ProjectEarnings ==
    /\ profile # <<>>
    /\ \E schedule \in ProjectSchedules :
           call' = Called("_project_earnings", <<profile[1], schedule>>,
                          Return(_project_earnings(profile[1], schedule).value))
    /\ UNCHANGED <<scorerVars, twinVars>>

CalculateFeasibility ==
    /\ profile # <<>>
    /\ \E schedule \in ProjectSchedules :
           call' = Called("_calculate_feasibility", <<profile[1], schedule>>,
                          _calculate_feasibility(profile[1], schedule))
    /\ UNCHANGED <<scorerVars, twinVars>>

ProjectInit ==
    /\ drivers_df = <<>>
    /\ config = DefaultConfig
    /\ weights = DefaultWeights
    /\ input = NoInput
    /\ call = NoCall
    /\ rides_data = <<>>
    /\ earnings_data = <<>>
    /\ incentives_data = <<>>
    /\ surge_data \in SurgeTables
    /\ profile \in {<<p>> : p \in ProjectProfiles}
    /\ simulations = <<>>

ProjectNext == ProjectEarnings \/ CalculateFeasibility

SpecProject == ProjectInit /\ [][ProjectNext]_vars

-----------------------------------------------------------------------------
(* The simulation called with profiles as learn_driver_patterns builds     *)
(* them: D1 has daily earnings records, D2 has none.                       *)

WeekProfiles ==
    {[driver_id |-> id, preferred_hours |-> ph, peak_days |-> pd,
      avg_earnings_per_hour |-> Int2R(20), surge_responsiveness |-> R(1, 2),
      fatigue_threshold |-> ft, preferred_zones |-> <<101>>,
      incentive_completion_rate |-> R(1, 2), consistency_score |-> R(1, 2)] :
        id \in {"D1", "D2"},
        ph \in {<<0, 1>>, <<9, 8>>, <<1, 23, 18, 9, 20, 7>>},
        pd \in {<<"Monday">>, <<"Friday", "Monday", "Saturday">>, <<"Sunday", "Saturday">>},
        ft \in {3, 8}}

EarningsRow(id, net, mins, trips) ==
    [earner_id |-> id, total_net_earnings |-> net, rides_duration_mins |-> mins,
     trips_count |-> trips]

WeekEarningsTables ==
    {<<EarningsRow("D1", 100, 240, 8)>>,
     <<EarningsRow("D1", 100, 240, 8), EarningsRow("D3", 500, 600, 20),
       EarningsRow("D1", 40, 120, 3)>>}

\* hours without a surge row, with one row and with two rows
SurgeHours == {0, 5, 18, 23}

GetSurgeMultiplier ==
    /\ \E hour \in SurgeHours :
           call' = Called("_get_surge_multiplier", <<hour>>, Return(_get_surge_multiplier(hour)))
    /\ UNCHANGED <<scorerVars, twinVars>>

GenerateScenarios ==
    /\ profile # <<>>
    /\ LET res == _generate_scenarios(profile[1])
       IN  /\ call' = Called("_generate_scenarios", <<profile[1]>>, Return(res.scenarios))
           /\ profile' = <<res.profile>>
    /\ UNCHANGED <<scorerVars, rides_data, earnings_data, incentives_data, surge_data,
                   simulations>>

WeekInit ==
    /\ drivers_df = <<>>
    /\ config = DefaultConfig
    /\ weights = DefaultWeights
    /\ input = NoInput
    /\ call = NoCall
    /\ rides_data = <<>>
    /\ earnings_data \in WeekEarningsTables
    /\ incentives_data = <<>>
    /\ surge_data \in SurgeTables
    /\ profile \in {<<p>> : p \in WeekProfiles}
    /\ simulations = <<>>

WeekNext == SimulateOptimalWeek \/ GenerateScenarios \/ GetSurgeMultiplier

SpecWeek == WeekInit /\ [][WeekNext]_vars

-----------------------------------------------------------------------------
(* One process holding both agents: the scorer with a table of two        *)
(* drivers, the first of them new, and the twin with the profile of D1.    *)

FrameTables == {t \in DriverTables : Len(t) = 2 /\ t[1].completed_trips = 0}

FrameProfiles ==
    {p \in WeekProfiles : /\ p.driver_id = "D1"
                          /\ p.fatigue_threshold = 8
                          /\ p.peak_days = <<"Friday", "Monday", "Saturday">>}

FrameInit ==
    /\ drivers_df \in FrameTables
    /\ config = DefaultConfig
    /\ weights = DefaultWeights
    /\ input = NoInput
    /\ call = NoCall
    /\ rides_data = <<>>
    /\ earnings_data = <<EarningsRow("D1", 100, 240, 8)>>
    /\ incentives_data = <<>>
    /\ surge_data \in SurgeTables \ {<<>>}
    /\ profile \in {<<p>> : p \in FrameProfiles}
    /\ simulations = <<>>

FrameNext ==
    \/ PrioritizeAllDrivers
    \/ GetTopDrivers
    \/ GetDriverPriority
    \/ SimulateOptimalWeek

SpecFrame == FrameInit /\ [][FrameNext]_vars

-----------------------------------------------------------------------------
(* Properties of the scorer.                                               *)

RowOf(earner_id) == CHOOSE i \in 1..Len(drivers_df) : drivers_df[i].earner_id = earner_id

\* C1: prioritize_all_drivers returns one score per driver, ordered by
\* non-increasing overall_priority_score, with rank i at position i, and
\* drivers with equal scores in the order of their rows in the table.
C1_RankingStableTotalOrder ==
    call.op = "prioritize_all_drivers" =>
        LET res == call.value
            N == Len(drivers_df)
        IN  /\ call.exc = "none"
            /\ Len(res) = N
            /\ {res[i].earner_id : i \in 1..N} = {drivers_df[i].earner_id : i \in 1..N}
            /\ \A i \in 1..N :
                /\ res[i].rank = i
                /\ res[i].overall_priority_score =
                       ScoreDriver(drivers_df[RowOf(res[i].earner_id)]).overall_priority_score
            /\ \A i, j \in 1..N :
                i < j =>
                    /\ RLe(res[j].overall_priority_score, res[i].overall_priority_score)
                    /\ res[i].overall_priority_score = res[j].overall_priority_score
                           => RowOf(res[i].earner_id) < RowOf(res[j].earner_id)

\* a ranking of three drivers in which the last row of the table comes
\* first and the two others tie
C1_Witness ==
    /\ call.op = "prioritize_all_drivers"
    /\ Len(call.value) = 3
    /\ call.value[1].earner_id = drivers_df[3].earner_id
    /\ call.value[2].overall_priority_score = call.value[3].overall_priority_score
    /\ call.value[1].overall_priority_score # call.value[2].overall_priority_score

IsValidInput(d) ==
    /\ RLe(ROne, d.rating) /\ RLe(d.rating, Int2R(5))
    /\ d.completed_trips >= 0
    /\ \A x \in {d.acceptance_rate, d.cancellation_rate, d.activeness_score, d.safety_score} :
           RLe(RZero, x) /\ RLe(x, ROne)

\* C2: with the default weights and configuration the overall priority
\* score of every valid driver lies in [0, 1].
C2_ScoreInUnitInterval ==
    (call.op = "score" /\ IsValidInput(input)) =>
        /\ RLe(RZero, call.value.overall_priority_score)
        /\ RLe(call.value.overall_priority_score, ROne)

\* the upper boundary input: rating 5, 100000 trips, every reliability 1
C2_Witness ==
    /\ call.op = "score"
    /\ input.rating = Int2R(5) /\ input.completed_trips = 100000
    /\ input.acceptance_rate = ROne /\ input.cancellation_rate = RZero
    /\ input.activeness_score = ROne /\ input.safety_score = ROne
    /\ RLt(R(99, 100), call.value.overall_priority_score)

\* C6: for n >= 0 and r in [1, 5] the experience-aware rating lies between
\* the platform average and the raw rating.
C6_EARBetweenPriorAndRating ==
    (/\ call.op = "calculate_experience_aware_rating"
     /\ call.arg[2] >= 0
     /\ RLe(ROne, call.arg[1]) /\ RLe(call.arg[1], Int2R(5))) =>
        LET a == config.platform_avg_rating
            r == call.arg[1]
        IN  /\ call.exc = "none"
            /\ RLe(PyMin(a, r), call.value)
            /\ RLe(call.value, IF RLt(a, r) THEN r ELSE a)

\* a rating above the prior with some trips: strictly between the two
C6_Witness ==
    /\ call.op = "calculate_experience_aware_rating"
    /\ call.arg[2] > 0
    /\ call.exc = "none"
    /\ RLt(config.platform_avg_rating, call.value)
    /\ RLt(call.value, call.arg[1])

\* C7: with zero completed trips the experience-aware rating is exactly the
\* platform average, and the call completes without a division error.
C7_EARAtZeroTrips ==
    (call.op = "calculate_experience_aware_rating" /\ call.arg[2] = 0) =>
        /\ call.exc = "none"
        /\ call.value = config.platform_avg_rating

\* r = 4.9, n = 0 gives 4.7
C7_Witness ==
    /\ call.op = "calculate_experience_aware_rating"
    /\ call.arg = <<R(49, 10), 0>>
    /\ call.value = R(47, 10)

C9_AbsentDriverIsNone ==
    (/\ call.op = "get_driver_priority"
     /\ \A i \in 1..Len(drivers_df) : drivers_df[i].earner_id # call.arg[1]) =>
        /\ call.exc = "none"
        /\ call.value = <<>>

\* a lookup of an absent id in a table that has rows
C9_Witness ==
    /\ call.op = "get_driver_priority"
    /\ call.arg = <<AbsentId>>
    /\ Len(drivers_df) > 0
    /\ call.value = <<>>

-----------------------------------------------------------------------------
(* Properties of the digital twin.                                         *)

ScenarioNames ==
    <<"current_pattern", "early_bird", "surge_optimizer", "consistent_grind", "weekend_warrior">>

\* key(a) >= key(b) for two scenario results, as IEEE compares
KeyGe(a, b) ==
    /\ ~ProductIsNaN(a.projected_weekly_earnings, a.feasibility_score)
    /\ ~ProductIsNaN(b.projected_weekly_earnings, b.feasibility_score)
    /\ ~ProductLess(a.projected_weekly_earnings, a.feasibility_score,
                    b.projected_weekly_earnings, b.feasibility_score)

BestIsFirstMaximum(outcome) ==
    LET rs == outcome.scenarios
    IN  \E b \in 1..Len(rs) :
            /\ rs[b].name = outcome.best_scenario
            /\ rs[b].name = ScenarioNames[b]
            /\ \A j \in 1..Len(rs) : KeyGe(rs[b], rs[j])
            /\ \A j \in 1..(b - 1) : ~KeyGe(rs[j], rs[b])

\* C3: best_scenario is a scenario of the catalogue whose product
\* projected_weekly_earnings x feasibility_score is >= that of every other
\* scenario, the earliest declared one among those with the maximal product.
C3_BestScenarioIsFirstMaximum ==
    (call.op = "simulate_optimal_week" /\ call.exc = "none") =>
        BestIsFirstMaximum(call.value)

\* what the code does guarantee: the claim for drivers whose learned
\* avg_earnings_per_hour is a finite number
C3_HoldsForFiniteEarnings ==
    (/\ call.op = "simulate_optimal_week" /\ call.exc = "none"
     /\ IsFinite(call.arg[1].avg_earnings_per_hour)) =>
        BestIsFirstMaximum(call.value)

InUnitInterval(x) == IsFinite(x) /\ RLe(RZero, x) /\ RLe(x, ROne)

\* C4: for every learned profile and every scenario of the catalogue the
\* feasibility score is a defined number in [0, 1].
C4_FeasibilityInUnitInterval ==
    /\ profile # <<>> =>
        LET sc == _generate_scenarios(profile[1]).scenarios
        IN  \A i \in 1..Len(sc) :
                LET f == _calculate_feasibility(profile[1], sc[i].schedule)
                IN  f.exc = "none" /\ InUnitInterval(f.value)
    /\ (call.op = "simulate_optimal_week" /\ call.exc = "none") =>
        \A i \in 1..Len(call.value.scenarios) :
            InUnitInterval(call.value.scenarios[i].feasibility_score)

\* a driver whose rides all fall on one calendar day (undefined standard
\* deviations) has been simulated
C4_Witness ==
    /\ call.op = "simulate_optimal_week" /\ call.exc = "none"
    /\ IsNaN(call.arg[1].consistency_score)
    /\ Len(call.arg[1].peak_days) = 1
    /\ \E i \in 1..Len(call.value.scenarios) :
           call.value.scenarios[i].feasibility_score = ROne

C10_NoRidesRaises ==
    (call.op = "learn_driver_patterns" /\ RidesOf(call.arg[1]) = <<>>) =>
        /\ call.exc = "ValueError"
        /\ call.value = <<>>
        /\ profile = <<>>

\* the lookup of a driver without rides in a sheet that has rides
C10_Witness ==
    /\ call.op = "learn_driver_patterns"
    /\ call.arg = <<"D2">>
    /\ Len(rides_data) > 0
    /\ call.exc = "ValueError"

-----------------------------------------------------------------------------
(* Properties of the scorer's options and of raw arguments.                *)

WeightSum(w) ==
    RAdd(RAdd(RAdd(RAdd(RAdd(w.rating, w.acceptance), w.cancellation), w.activeness),
              w.safety), w.experience_boost)

IsValidConfiguration ==
    /\ WeightSum(weights) = ROne
    /\ config.equivalent_prior_trips >= 0
    /\ config.n95_trips >= 0
    /\ config.max_incidents >= 0
    /\ config.activeness_window_days >= 0

ScoringOps == {"score", "calculate_experience_aware_rating", "calculate_reliability_score"}

\* C11: options whose weights do not sum to 1.0 or whose thresholds are
\* negative are rejected with InvalidConfiguration when they are set, and no
\* scoring operation runs with such options
C11_InvalidConfigurationRejected ==
    /\ (call.op = "override" /\ ~IsValidConfiguration => call.exc = "InvalidConfiguration")
    /\ (call.op \in ScoringOps => IsValidConfiguration)

\* C12: both reliabilities returned by calculate_reliability_score lie in
\* [0, 1], whatever acceptance_rate and cancellation_rate are passed
C12_ReliabilityClamped ==
    call.op = "calculate_reliability_score" =>
        /\ RLe(RZero, call.value.A) /\ RLe(call.value.A, ROne)
        /\ RLe(RZero, call.value.C) /\ RLe(call.value.C, ROne)

-----------------------------------------------------------------------------
(* Properties of the learned statistics.                                   *)

\* the calendar days of the learned driver, with the span of working hours
\* and the mean earnings per hour of each day
LearnedRides == RidesOf(profile[1].driver_id)
LearnedDays == Dates(LearnedRides)

DailySpan ==
    [i \in 1..Len(LearnedDays) |->
        LET h == Column(RidesOn(LearnedRides, LearnedDays[i]), "hour")
        IN  MaxOf(h) - MinOf(h) + 1]

DailyEfficiency ==
    [i \in 1..Len(LearnedDays) |->
        SeriesMean(Column(RidesOn(LearnedRides, LearnedDays[i]), "earnings_per_hour"))]

SpanEfficiencyBelow ==
    PearsonBelow([i \in 1..Len(LearnedDays) |-> Int2R(DailySpan[i])], DailyEfficiency,
                 R(-3, 10))

\* C13: fatigue_threshold is the 70th percentile of the daily span, cut to
\* an integer, when there are at least 6 days and the correlation of span
\* and efficiency is below -0.3; it is 8 in every other case; it is always
\* a positive integer
C13_FatigueThresholdRule ==
    profile # <<>> =>
        LET t == profile[1].fatigue_threshold
            fatigued == Len(LearnedDays) >= 6 /\ SpanEfficiencyBelow
        IN  /\ t \in Nat /\ t > 0
            /\ fatigued => t = IntQuantile(DailySpan, 7)
            /\ ~fatigued => t = 8

\* six days whose long days pay less: the percentile is taken, and it is
\* not a whole number before the cut
C13_Witness ==
    /\ profile # <<>>
    /\ Len(LearnedDays) >= 6
    /\ SpanEfficiencyBelow
    /\ profile[1].fatigue_threshold # 8
    /\ (7 * (Len(LearnedDays) - 1)) % 10 # 0

-----------------------------------------------------------------------------
(* Properties of _project_earnings.                                        *)

\* the multiplier the fatigue rule is to apply to the base earnings
ClampedFatigueMultiplier(daily_hours, fatigue_threshold) ==
    IF daily_hours <= fatigue_threshold THEN ROne
    ELSE PyMax(RZero, RSub(ROne, R(daily_hours - fatigue_threshold, 10)))

\* the earnings of a schedule when that multiplier is applied in every slot
ClampedProjection(driver_profile, schedule) ==
    LET base == driver_profile.avg_earnings_per_hour
        Slot(item, hour) ==
            LET fatigued == FMul(base, ClampedFatigueMultiplier(Len(item.hours),
                                                             driver_profile.fatigue_threshold))
                boosted == IF \E i \in 1..Len(driver_profile.peak_days) :
                                  driver_profile.peak_days[i] = item.day
                           THEN FMul(fatigued, R(11, 10))
                           ELSE fatigued
                surge_bonus == FMul(FMul(base, FSub(_get_surge_multiplier(hour), ROne)),
                                    driver_profile.surge_responsiveness)
            IN  FAdd(boosted, surge_bonus)
        DayTotal(item) == FSum([j \in 1..Len(item.hours) |-> Slot(item, item.hours[j])])
    IN  FSum([i \in 1..Len(schedule) |-> DayTotal(schedule[i])])

\* C14: the fatigue multiplier applied by _project_earnings is 1 up to the
\* threshold and max(0, 1 - 0.1 * (daily_hours - fatigue_threshold)) beyond
\* it, never negative, for every profile with a positive threshold
C14_FatigueMultiplierClamped ==
    (call.op = "_project_earnings" /\ call.arg[1].fatigue_threshold > 0) =>
        call.value = ClampedProjection(call.arg[1], call.arg[2])

-----------------------------------------------------------------------------
(* Properties of the learned profile on sheets with corrupt rows.          *)

\* C15: avg_earnings_per_hour is the mean of net_earnings * 60 /
\* duration_mins over the driver's trips of positive duration only, hence
\* finite, and learn_driver_patterns does not fail when a trip without
\* duration stands beside valid trips
C15_MeanOverPositiveDurations ==
    /\ (call.op = "learn_driver_patterns" /\ call.exc = "none") =>
        LET valid == SelectSeq(RidesOf(call.arg[1]), LAMBDA r : r.duration_mins > 0)
        IN  valid # <<>> =>
                /\ IsFinite(call.value.avg_earnings_per_hour)
                /\ call.value.avg_earnings_per_hour =
                       SeriesMean(Column(valid, "earnings_per_hour"))
    /\ (call.op = "learn_driver_patterns" /\ RidesOf(call.arg[1]) # <<>>) =>
        call.exc = "none"

\* C17: consistency_score of every driver with at least one trip is
\* 1 / (1 + std_start_hour + cv_ride_count) as a defined number in [0, 1],
\* also when all the trips fall on one calendar day
C17_ConsistencyDefined ==
    (call.op = "learn_driver_patterns" /\ call.exc = "none") =>
        InUnitInterval(call.value.consistency_score)

\* C19: peak_days does not depend on the order of the trip records: two
\* calls for one driver over the same trips, whatever order value_counts()
\* met the records in, return the same peak_days
C19_PeakDaysIndependentOfRecordOrder ==
    [][(/\ call.op = "learn_driver_patterns" /\ call.exc = "none"
        /\ call'.op = "learn_driver_patterns" /\ call'.exc = "none"
        /\ call'.arg = call.arg)
       => call'.value.peak_days = call.value.peak_days]_vars

-----------------------------------------------------------------------------
(* Properties of the learned profile on longer histories.                  *)

\* the hours of day of the learned driver's trips, each with the surge
\* multipliers the surge sheet lists for it
LearnedHours == Keys(Column(LearnedRides, "hour"))
HourCount(h) == Count(Column(LearnedRides, "hour"), h)
SurgeValues(h) == {surge_data[i].surge_multiplier : i \in {j \in 1..Len(surge_data) : surge_data[j].hour = h}}
SurgedHours == {h \in LearnedHours : SurgeValues(h) # {}}

\* C16: surge_responsiveness is exactly 0.0 when the driver has trips in
\* fewer than 2 distinct hours, or when the trip counts or the surge
\* multipliers of the hours are all equal; it is always a number in [-1, 1]
C16_SurgeResponsivenessDefined ==
    profile # <<>> =>
        LET s == profile[1].surge_responsiveness
        IN  /\ IsFinite(s) /\ RLe(R(-1, 1), s) /\ RLe(s, ROne)
            /\ Cardinality(LearnedHours) < 2 => s = RZero
            /\ Cardinality({HourCount(h) : h \in SurgedHours}) < 2 => s = RZero
            /\ Cardinality(UNION {SurgeValues(h) : h \in SurgedHours}) < 2 => s = RZero

\* a driver active in several hours with different trip counts, under a
\* surge sheet whose multiplier is the same in every hour
C16_Witness ==
    /\ profile # <<>>
    /\ Cardinality({HourCount(h) : h \in SurgedHours}) >= 2
    /\ Cardinality(UNION {SurgeValues(h) : h \in SurgedHours}) = 1
    /\ profile[1].surge_responsiveness = RZero

\* C18: preferred_hours lists the (up to 8) hours with the most trips, most
\* active first, and of two hours with equal counts the lower one is chosen
\* and comes first
HourBefore(a, b) == HourCount(a) > HourCount(b) \/ (HourCount(a) = HourCount(b) /\ a < b)

C18_PreferredHoursTopEight ==
    profile # <<>> =>
        LET ph == profile[1].preferred_hours
        IN  /\ Len(ph) = (IF Cardinality(LearnedHours) < 8 THEN Cardinality(LearnedHours) ELSE 8)
            /\ \A i \in 1..Len(ph) : ph[i] \in LearnedHours
            /\ \A i, j \in 1..Len(ph) : i < j => HourBefore(ph[i], ph[j])
            /\ \A h \in LearnedHours \ Keys(ph) : \A i \in 1..Len(ph) : HourBefore(ph[i], h)

\* more than 8 distinct hours, and the last hour kept has the same count as
\* an hour left out
C18_Witness ==
    /\ profile # <<>>
    /\ Cardinality(LearnedHours) > 8
    /\ \E h \in LearnedHours \ Keys(profile[1].preferred_hours) :
           HourCount(h) = HourCount(profile[1].preferred_hours[8])

-----------------------------------------------------------------------------
(* Independence of a driver's score from the rest of the collection.       *)

\* the ranking of the collection that holds this one driver only
RankedAlone(driver) == AssignRanks(SortDescending(<<ScoreDriver(driver)>>))[1]

\* C20: the overall_priority_score, the EAR and the experience boost that
\* prioritize_all_drivers gives a driver are those the driver gets in the
\* collection that holds nobody else, so they are the same in any two
\* collections that hold the driver with the same statistics
C20_ScoreOfOwnStatisticsOnly ==
    call.op = "prioritize_all_drivers" =>
        /\ Len(call.value) = Len(drivers_df)
        /\ \A i \in 1..Len(drivers_df) :
               \E k \in 1..Len(call.value) :
                   LET mine == call.value[k]
                       alone == RankedAlone(drivers_df[i])
                   IN  /\ mine.earner_id = drivers_df[i].earner_id
                       /\ mine.overall_priority_score = alone.overall_priority_score
                       /\ mine.experience_adjusted_rating = alone.experience_adjusted_rating
                       /\ mine.experience_boost = alone.experience_boost

\* a ranked collection of drivers whose scores differ
C20_Witness ==
    /\ call.op = "prioritize_all_drivers"
    /\ Len(call.value) >= 2
    /\ \E i, j \in 1..Len(call.value) :
           call.value[i].overall_priority_score # call.value[j].overall_priority_score

-----------------------------------------------------------------------------
(* Properties of _project_earnings and _calculate_feasibility called with  *)
(* a profile and a schedule.                                               *)

\* the (day, hour) slots of a schedule
Slots(schedule) ==
    UNION {{<<i, j>> : j \in 1..Len(schedule[i].hours)} : i \in 1..Len(schedule)}

IsPeakDay(driver_profile, day) ==
    \E i \in 1..Len(driver_profile.peak_days) : driver_profile.peak_days[i] = day

\* 1 up to the threshold, 1 - 0.1 * (daily_hours - fatigue_threshold) beyond
FatigueMultiplier(driver_profile, hours) ==
    IF Len(hours) <= driver_profile.fatigue_threshold THEN ROne
    ELSE RSub(ROne, R(Len(hours) - driver_profile.fatigue_threshold, 10))

\* the sum of the bases: per day, slots * avg * fatigue multiplier * peak bonus
RECURSIVE BaseTotal(_, _)
BaseTotal(driver_profile, schedule) ==
    IF schedule = <<>> THEN RZero
    ELSE LET item == Head(schedule)
             base == RMul(RMul(driver_profile.avg_earnings_per_hour,
                               FatigueMultiplier(driver_profile, item.hours)),
                          IF IsPeakDay(driver_profile, item.day) THEN R(11, 10) ELSE ROne)
         IN  RAdd(RMul(Int2R(Len(item.hours)), base), BaseTotal(driver_profile, Tail(schedule)))

\* the sum over the slots of surge_multiplier(hour) - 1
SurgeExcessTotal(schedule) ==
    FSum([i \in 1..Len(schedule) |->
            FSum([j \in 1..Len(schedule[i].hours) |->
                    RSub(_get_surge_multiplier(schedule[i].hours[j]), ROne)])])

\* C21: _project_earnings is the sum over the slots of base + surge_bonus
\* with base = avg * fatigue multiplier of the day * (1.1 on a peak day) and
\* surge_bonus = avg * (surge_multiplier(hour) - 1) * surge_responsiveness
\* taken from the unpenalised avg; an empty schedule projects 0
C21_ProjectionIsSumOverSlots ==
    call.op = "_project_earnings" =>
        LET p == call.arg[1]
            schedule == call.arg[2]
        IN  /\ call.value =
                   RAdd(BaseTotal(p, schedule),
                        RMul(RMul(p.avg_earnings_per_hour, p.surge_responsiveness),
                             SurgeExcessTotal(schedule)))
            /\ Slots(schedule) = {} => call.value = RZero

\* two days, one of them a peak day beyond the fatigue threshold, and a
\* surge bonus that is not zero
C21_Witness ==
    /\ call.op = "_project_earnings"
    /\ Len(call.arg[2]) = 2
    /\ \E i \in 1..2 : /\ IsPeakDay(call.arg[1], call.arg[2][i].day)
                       /\ Len(call.arg[2][i].hours) > call.arg[1].fatigue_threshold
    /\ call.arg[1].surge_responsiveness # RZero
    /\ SurgeExcessTotal(call.arg[2]) # RZero

\* the terms of the feasibility score
OverlapFraction(driver_profile, schedule) ==
    R(Cardinality({h \in Keys(driver_profile.preferred_hours) :
                       \E s \in Slots(schedule) : schedule[s[1]].hours[s[2]] = h}),
      Len(driver_profile.preferred_hours))

ExcessHours(driver_profile, schedule) ==
    Cardinality(Slots(schedule)) - driver_profile.fatigue_threshold * Len(schedule)

OverworkPenalty(driver_profile, schedule) ==
    IF ExcessHours(driver_profile, schedule) > 0
    THEN R(ExcessHours(driver_profile, schedule), 10) ELSE RZero

\* C22: the overwork penalty is max(0, (total hours - threshold * days) / 10),
\* 0 when the total does not exceed threshold * days, and the score is
\* exactly 0 when the penalty is >= overlap + 0.2 * consistency
C22_OverworkPenalty ==
    (call.op = "_calculate_feasibility" /\ call.exc = "none") =>
        LET p == call.arg[1]
            schedule == call.arg[2]
            positive == RAdd(OverlapFraction(p, schedule), RMul(R(2, 10), p.consistency_score))
            raw == RSub(positive, OverworkPenalty(p, schedule))
        IN  /\ call.value = (IF RLt(raw, RZero) THEN RZero
                             ELSE IF RLt(ROne, raw) THEN ROne ELSE raw)
            /\ RLe(positive, OverworkPenalty(p, schedule)) => call.value = RZero
            /\ ExcessHours(p, schedule) <= 0 =>
                   call.value = (IF RLt(ROne, positive) THEN ROne ELSE positive)

\* the total exceeds threshold * days by 20 hours: the penalty is 2.0 and
\* the score is 0
C22_Witness ==
    /\ call.op = "_calculate_feasibility" /\ call.exc = "none"
    /\ ExcessHours(call.arg[1], call.arg[2]) = 20
    /\ OverworkPenalty(call.arg[1], call.arg[2]) = Int2R(2)
    /\ call.value = RZero

-----------------------------------------------------------------------------
(* Properties of the simulation.                                           *)

SurgeRowsOf(hour) == {i \in 1..Len(surge_data) : surge_data[i].hour = hour}

SurgeTotalOf(hour) ==
    FSum([i \in 1..Len(surge_data) |->
            IF surge_data[i].hour = hour THEN surge_data[i].surge_multiplier ELSE RZero])

EarningsRowsOf(id) == {i \in 1..Len(earnings_data) : earnings_data[i].earner_id = id}

HasEmptySchedule(scenarios) ==
    \E i \in 1..Len(scenarios) : Slots(scenarios[i].schedule) = {}

\* C23: without a row for the hour _get_surge_multiplier returns 1.0 and
\* with rows their mean; a scenario none of whose hours has a row projects
\* the bases alone (every surge_bonus is 0), and simulate_optimal_week
\* never raises over the surge table: a call raises only for a driver
\* without daily earnings records and a scenario without slots
C23_MissingSurgeIsOne ==
    /\ call.op = "_get_surge_multiplier" =>
           /\ call.exc = "none"
           /\ SurgeRowsOf(call.arg[1]) = {} => call.value = ROne
           /\ SurgeRowsOf(call.arg[1]) # {} =>
                  RMul(Int2R(Cardinality(SurgeRowsOf(call.arg[1]))), call.value)
                      = SurgeTotalOf(call.arg[1])
    /\ call.op = "simulate_optimal_week" =>
           /\ call.exc # "none" =>
                  /\ EarningsRowsOf(call.arg[1].driver_id) = {}
                  /\ HasEmptySchedule(Scenarios(call.arg[1]))
           /\ call.exc = "none" =>
                  \A i \in 1..Len(call.value.scenarios) :
                      LET sc == call.value.scenarios[i]
                      IN  (\A s \in Slots(sc.schedule) :
                               SurgeRowsOf(sc.schedule[s[1]].hours[s[2]]) = {})
                          => sc.projected_weekly_earnings = BaseTotal(call.arg[1], sc.schedule)

\* a simulation returned over a surge table that has rows for some hours of
\* the scenarios and none for others
C23_Witness ==
    /\ call.op = "simulate_optimal_week" /\ call.exc = "none"
    /\ surge_data # <<>>
    /\ \E i \in 1..Len(call.value.scenarios) :
           LET sc == call.value.scenarios[i]
           IN  /\ Slots(sc.schedule) # {}
               /\ \E s \in Slots(sc.schedule) : SurgeRowsOf(sc.schedule[s[1]].hours[s[2]]) = {}
               /\ \E s \in Slots(sc.schedule) :
                      Cardinality(SurgeRowsOf(sc.schedule[s[1]].hours[s[2]])) = 2

NetTotalOf(id) ==
    FSum([i \in 1..Len(earnings_data) |->
            IF earnings_data[i].earner_id = id
            THEN Int2R(earnings_data[i].total_net_earnings) ELSE RZero])

\* C24: for a driver with daily earnings records the baseline
\* weekly_earnings is 7 * the mean of the driver's total_net_earnings, and
\* every scenario's improvement is
\* 100 * (projected_weekly_earnings - baseline) / baseline
C24_BaselineAndImprovement ==
    (/\ call.op = "simulate_optimal_week" /\ call.exc = "none"
     /\ EarningsRowsOf(call.arg[1].driver_id) # {}) =>
        LET id == call.arg[1].driver_id
            baseline == call.value.current_performance.weekly_earnings
        IN  /\ RMul(Int2R(Cardinality(EarningsRowsOf(id))), baseline)
                   = RMul(Int2R(7), NetTotalOf(id))
            /\ baseline # RZero
            /\ \A i \in 1..Len(call.value.scenarios) :
                   LET sc == call.value.scenarios[i]
                   IN  RMul(sc.improvement, baseline)
                           = RMul(Int2R(100), RSub(sc.projected_weekly_earnings, baseline))

\* the driver's records stand among another driver's, and the scenarios
\* improve and worsen the baseline
C24_Witness ==
    /\ call.op = "simulate_optimal_week" /\ call.exc = "none"
    /\ Cardinality(EarningsRowsOf(call.arg[1].driver_id)) = 2
    /\ Len(earnings_data) = 3
    /\ \E i \in 1..Len(call.value.scenarios) :
           RLt(call.value.scenarios[i].improvement, RZero)
    /\ \E i \in 1..Len(call.value.scenarios) :
           RLt(RZero, call.value.scenarios[i].improvement)

\* the days of a schedule, and the hours it gives to one of them
DaysOf(schedule) == {schedule[k].day : k \in 1..Len(schedule)}
HoursOn(schedule, day) == schedule[CHOOSE k \in 1..Len(schedule) : schedule[k].day = day].hours

\* preferred_hours[:4]
FirstFour(driver_profile) ==
    [j \in 1..(IF Len(driver_profile.preferred_hours) < 4
               THEN Len(driver_profile.preferred_hours) ELSE 4) |->
        driver_profile.preferred_hours[j]]

\* the positions of preferred_hours[:4] whose hour stays at or above 0
\* when shifted by 2
ShiftedPositions(driver_profile) ==
    {j \in 1..Len(FirstFour(driver_profile)) : FirstFour(driver_profile)[j] >= 2}

\* C30: _generate_scenarios returns the five scenarios in their order,
\* every slot is an hour in 0..23, current_pattern and early_bird cover
\* exactly the peak days with at most 4 slots each (early_bird the first
\* four preferred hours shifted by 2, without those below 0), and
\* surge_optimizer gives Friday and Saturday 17..22 and every other peak
\* day the first four preferred hours
C30_ScenarioCatalogue ==
    call.op = "_generate_scenarios" =>
        LET p == call.arg[1]
            sc == call.value
            peak == {p.peak_days[k] : k \in 1..Len(p.peak_days)}
        IN  /\ [i \in 1..Len(sc) |-> sc[i].name] = ScenarioNames
            /\ \A i \in 1..Len(sc) :
                   /\ Cardinality(DaysOf(sc[i].schedule)) = Len(sc[i].schedule)
                   /\ \A s \in Slots(sc[i].schedule) :
                          sc[i].schedule[s[1]].hours[s[2]] \in 0..23
            /\ DaysOf(sc[1].schedule) = peak
            /\ DaysOf(sc[2].schedule) = peak
            /\ \A day \in peak :
                   /\ HoursOn(sc[1].schedule, day) = FirstFour(p)
                   /\ Len(HoursOn(sc[1].schedule, day)) <= 4
                   /\ Len(HoursOn(sc[2].schedule, day)) = Cardinality(ShiftedPositions(p))
                   /\ \A j \in 1..Len(HoursOn(sc[2].schedule, day)) :
                          \E k \in ShiftedPositions(p) :
                              /\ HoursOn(sc[2].schedule, day)[j] = FirstFour(p)[k] - 2
                              /\ Cardinality({m \in ShiftedPositions(p) : m < k}) = j - 1
            /\ DaysOf(sc[3].schedule) = peak \cup {"Friday", "Saturday"}
            /\ \A day \in DaysOf(sc[3].schedule) :
                   HoursOn(sc[3].schedule, day) =
                       IF day \in {"Friday", "Saturday"} THEN <<17, 18, 19, 20, 21, 22>>
                       ELSE FirstFour(p)

\* Friday is a peak day, there are more than four preferred hours and one
\* of the first four shifts below 0
C30_Witness ==
    /\ call.op = "_generate_scenarios"
    /\ \E k \in 1..Len(call.arg[1].peak_days) : call.arg[1].peak_days[k] = "Friday"
    /\ Len(call.arg[1].preferred_hours) > 4
    /\ Cardinality(ShiftedPositions(call.arg[1])) \in 1..3
    /\ HoursOn(call.value[3].schedule, "Friday") = <<17, 18, 19, 20, 21, 22>>

\* C29: simulate_optimal_week returns an outcome without raising for every
\* profile learned from a driver with at least one trip, also when the
\* driver has no daily earnings records and a scenario has no slots
C29_SimulationNeverRaises ==
    (call.op = "simulate_optimal_week" /\ RidesOf(call.arg[1].driver_id) # <<>>) =>
        call.exc = "none"

-----------------------------------------------------------------------------
(* Shape of the learned profile.                                           *)

IsDistinct(s) == \A i, j \in 1..Len(s) : i # j => s[i] # s[j]

IncentiveRowsOf(id) == {i \in 1..Len(incentives_data) : incentives_data[i].earner_id = id}

\* C28: a driver with at least one trip gets a profile with 1..8 distinct
\* preferred hours in 0..23, 1..3 distinct weekday names as peak days, at
\* most 5 distinct preferred zones and an incentive completion rate in
\* [0,1] that is 0.0 without incentive records; _calculate_feasibility
\* on such a profile never divides by zero
C28_ProfileShape ==
    (call.op = "learn_driver_patterns" /\ RidesOf(call.arg[1]) # <<>>) =>
        /\ call.exc = "none"
        /\ LET p == call.value
           IN  /\ Len(p.preferred_hours) \in 1..8
               /\ IsDistinct(p.preferred_hours)
               /\ \A i \in 1..Len(p.preferred_hours) : p.preferred_hours[i] \in 0..23
               /\ Len(p.peak_days) \in 1..3
               /\ IsDistinct(p.peak_days)
               /\ \A i \in 1..Len(p.peak_days) :
                      \E k \in 1..Len(DayNames) : p.peak_days[i] = DayNames[k]
               /\ Len(p.preferred_zones) <= 5
               /\ IsDistinct(p.preferred_zones)
               /\ IsFinite(p.incentive_completion_rate)
               /\ RLe(RZero, p.incentive_completion_rate)
               /\ RLe(p.incentive_completion_rate, ROne)
               /\ IncentiveRowsOf(p.driver_id) = {} => p.incentive_completion_rate = RZero
               /\ \A i \in 1..Len(Scenarios(p)) :
                      _calculate_feasibility(p, Scenarios(p)[i].schedule).exc = "none"

\* the driver worked in more than 8 hours of the day, on more than 3
\* weekdays and in more than 5 zones
C28_Witness ==
    /\ call.op = "learn_driver_patterns" /\ call.exc = "none"
    /\ Cardinality(Keys(Column(RidesOf(call.arg[1]), "hour"))) > 8
    /\ Cardinality(Keys(Column(RidesOf(call.arg[1]), "day_name"))) > 3
    /\ Cardinality(Keys(Column(RidesOf(call.arg[1]), "pickup_hex_id9"))) > 5
    /\ Len(call.value.preferred_hours) = 8
    /\ Len(call.value.peak_days) = 3
    /\ Len(call.value.preferred_zones) = 5

-----------------------------------------------------------------------------
(* Frame of the operations.                                                *)

RankingOps == {"prioritize_all_drivers", "get_top_drivers", "get_driver_priority"}

\* C25: a call of prioritize_all_drivers, get_top_drivers or
\* get_driver_priority leaves the driver table, config and weights as they
\* were, so that a further prioritize_all_drivers returns the same ranking;
\* simulate_optimal_week leaves the profile passed in and the trip,
\* earnings and surge tables as they were
C25_InputsUnchanged ==
    [][/\ call'.op \in RankingOps =>
              /\ drivers_df' = drivers_df
              /\ config' = config
              /\ weights' = weights
              /\ call'.op = "prioritize_all_drivers" => call'.value = prioritize_all_drivers
       /\ call'.op = "simulate_optimal_week" =>
              /\ profile' = <<call'.arg[1]>>
              /\ profile' = profile
              /\ rides_data' = rides_data
              /\ earnings_data' = earnings_data
              /\ incentives_data' = incentives_data
              /\ surge_data' = surge_data]_vars

\* a ranking that reorders the table, returned after the simulations
C25_Witness ==
    /\ call.op = "prioritize_all_drivers"
    /\ Len(simulations) = MaxRepeat
    /\ call.value[1].earner_id = "E2"
    /\ drivers_df[1].earner_id = "E1"

-----------------------------------------------------------------------------
(* The ranking seen through get_top_drivers and get_driver_priority, and   *)
(* its monotonicity.                                                       *)

\* C26: get_top_drivers(n), n >= 0, is the first min(n, N) entries of the
\* ranking of prioritize_all_drivers, with the ranks 1..min(n, N);
\* get_driver_priority of a driver of the table is the entry of that
\* ranking with the driver's id, and its rank is its position there
C26_TopAndLookupFollowRanking ==
    /\ (call.op = "get_top_drivers" /\ call.arg[1] >= 0) =>
           LET m == IF call.arg[1] < Len(drivers_df) THEN call.arg[1] ELSE Len(drivers_df)
           IN  /\ Len(call.value) = m
               /\ call.value = [i \in 1..m |-> prioritize_all_drivers[i]]
               /\ \A i \in 1..m : call.value[i].rank = i
    /\ (/\ call.op = "get_driver_priority"
        /\ \E k \in 1..Len(drivers_df) : drivers_df[k].earner_id = call.arg[1]) =>
           /\ Len(call.value) = 1
           /\ call.value[1].earner_id = call.arg[1]
           /\ call.value[1].rank >= 1
           /\ call.value[1].rank <= Len(drivers_df)
           /\ prioritize_all_drivers[call.value[1].rank] = call.value[1]

\* the driver asked for stands first in the table and last in the ranking
C26_Witness ==
    /\ call.op = "get_driver_priority"
    /\ Len(call.value) = 1
    /\ call.value[1].rank = Len(drivers_df)
    /\ call.value[1].rank > 1
    /\ call.value[1].earner_id = drivers_df[1].earner_id

\* values an argument of the score can be raised to
RaisedRatings == {ROne, Int2R(3), R(9, 2), Int2R(5)}
RaisedRates == {RZero, R(1, 2), R(3, 4), ROne}

\* the score is not lowered when one argument of e is raised
MonotoneAt(e) ==
    LET Score(ear, boost, a, c, l, s) == calculate_overall_priority_score(ear, boost, a, c, l, s)
        base == e.overall_priority_score
    IN  /\ \A x \in RaisedRatings : RLe(e.experience_adjusted_rating, x) =>
               RLe(base, Score(x, e.experience_boost, e.acceptance_rate,
                               e.cancellation_reliability, e.recent_activeness, e.safety_score))
        /\ \A x \in RaisedRates :
               /\ RLe(e.experience_boost, x) =>
                      RLe(base, Score(e.experience_adjusted_rating, x, e.acceptance_rate,
                                      e.cancellation_reliability, e.recent_activeness,
                                      e.safety_score))
               /\ RLe(e.acceptance_rate, x) =>
                      RLe(base, Score(e.experience_adjusted_rating, e.experience_boost, x,
                                      e.cancellation_reliability, e.recent_activeness,
                                      e.safety_score))
               /\ RLe(e.cancellation_reliability, x) =>
                      RLe(base, Score(e.experience_adjusted_rating, e.experience_boost,
                                      e.acceptance_rate, x, e.recent_activeness,
                                      e.safety_score))
               /\ RLe(e.recent_activeness, x) =>
                      RLe(base, Score(e.experience_adjusted_rating, e.experience_boost,
                                      e.acceptance_rate, e.cancellation_reliability, x,
                                      e.safety_score))
               /\ RLe(e.safety_score, x) =>
                      RLe(base, Score(e.experience_adjusted_rating, e.experience_boost,
                                      e.acceptance_rate, e.cancellation_reliability,
                                      e.recent_activeness, x))

\* a is at least b on every statistic, with the same completed_trips
Dominates(a, b) ==
    /\ a.completed_trips = b.completed_trips
    /\ RLe(b.rating, a.rating)
    /\ RLe(b.acceptance_rate, a.acceptance_rate)
    /\ RLe(a.cancellation_rate, b.cancellation_rate)
    /\ RLe(b.activeness_score, a.activeness_score)
    /\ RLe(b.safety_score, a.safety_score)

\* C27: with the default weights the score does not fall when one of EAR,
\* experience_boost, acceptance_rate, cancellation_reliability,
\* activeness_score and safety_score rises, and a driver that dominates
\* another with the same completed_trips has the smaller rank unless the
\* two scores are equal
C27_ScoreMonotone ==
    call.op = "prioritize_all_drivers" =>
        /\ \A i \in 1..Len(call.value) : MonotoneAt(call.value[i])
        /\ \A i, j \in 1..Len(call.value) :
               Dominates(drivers_df[RowOf(call.value[i].earner_id)],
                         drivers_df[RowOf(call.value[j].earner_id)])
               => \/ call.value[i].rank <= call.value[j].rank
                  \/ call.value[i].overall_priority_score = call.value[j].overall_priority_score

\* a dominating driver that stands later in the table and earlier in the
\* ranking, with a strictly higher score
C27_Witness ==
    /\ call.op = "prioritize_all_drivers"
    /\ \E i, j \in 1..Len(call.value) :
           /\ i < j
           /\ RowOf(call.value[i].earner_id) > RowOf(call.value[j].earner_id)
           /\ Dominates(drivers_df[RowOf(call.value[i].earner_id)],
                        drivers_df[RowOf(call.value[j].earner_id)])
           /\ call.value[i].overall_priority_score # call.value[j].overall_priority_score
           /\ drivers_df[RowOf(call.value[i].earner_id)].safety_score
                  # drivers_df[RowOf(call.value[j].earner_id)].safety_score

====
